---------------------------- MODULE Spec2Model ----------------------------
(***************************************************************************)
(* A model of distiller-update: the apply engine and its host-wide lock    *)
(* (checker.py, UpdateChecker.apply), the planning path                    *)
(* (UpdateChecker.check / check_updates and the command runner) and the    *)
(* daemon loop (daemon.py, UpdateDaemon).                                  *)
(*                                                                         *)
(* Three specifications share the variables:                               *)
(*   Spec       - several callers (threads or processes of one host)       *)
(*                running apply() and the index refresh of check_updates() *)
(*   SpecCheck  - one check()/check_updates() call, command by command     *)
(*   SpecDaemon - one UpdateDaemon: start(), _check_loop(), stop()         *)
(***************************************************************************)
EXTENDS Integers, Sequences, FiniteSets, TLC

(***************************************************************************)
(* Bounds of the model.                                                    *)
(***************************************************************************)
MaxNameLen == 3
NumProcs == 2
MaxActions == 2
MaxLines == 2
MaxMtime == 2

Procs == 1..NumProcs

\* Python's None
NoneV == "<None>"

Names == {"pkga", "pkgb"}
\* current_version of an action: None, the empty string, or a version
CurVersions == {NoneV, "", "1.0"}
NewVersions == {"2.0"}
\* models.py Package, as an action handed to apply()
Package ==
    [name : Names, current_version : CurVersions, new_version : NewVersions, size : {0}]

\* every action list of at most MaxActions actions
RECURSIVE SeqsUpTo(_, _)
SeqsUpTo(S, n) ==
    IF n = 0 THEN {<<>>}
    ELSE LET shorter == SeqsUpTo(S, n - 1)
         IN  shorter \cup {Append(s, x) : s \in {t \in shorter : Len(t) = n - 1}, x \in S}

ActionLists == SeqsUpTo(Package, MaxActions)

\* exit codes an external command can end with: 0, the runner's synthetic 1
\* (timeout, spawn failure), and apt's own failure code
ExitCodes == {0, 1, 100}
\* exit codes drawn for an install invocation: success or failure
InstallCodes == {0, 100}
\* what `dpkg-query -W -f=${Version} name` can come back with through
\* _run_command, as <<stdout, code>>: a version, a blank version (a package
\* removed but not purged), or a failure (not installed, timeout)
QueryOutcomes == {<<"1.0", 0>>, <<"2.0", 0>>, <<"", 0>>, <<"", 1>>}

VARIABLES
    lockHolder,       \* who holds flock(/run/distiller-update.lock); 0 = free
    pc,               \* each caller's position
    actions,          \* apply()'s argument
    cmds,             \* the external commands the current call has issued
    rc,               \* apply()'s local rc
    ok,               \* apply()'s local ok
    results,          \* apply()'s local results
    ret,              \* what the call returned: <<>> or <<value>>
    \* ---- models.py Config
    apt_source_file,            \* None or a source file
    policy_allow_new_packages,
    bundle_default,             \* the curated bundle: a list of names
    \* ---- one UpdateChecker running check() / check_updates()
    notifiers,        \* self.notifiers: for each, whether its notify() raises
    ck_pc,            \* position of the call
    ck_kind,          \* "check" or "check_updates"
    packages_dict,    \* check_updates' packages_dict, in insertion order
    bundle_idx,       \* position of the curated loop in bundle_default
    ck_cmds,          \* the external commands the call has issued
    plan,             \* what check_updates() returned
    cache,            \* last_check.json: <<>> (no file) or <<content>>
    cacheBefore,      \* the file as it was when the call began
    notified,         \* the notifiers called by this call, in call order
    checks,           \* calls made so far (the clock of checked_at)
    \* ---- one UpdateDaemon
    start_pc,         \* position of start()
    loop_pc,          \* position of the check_task running _check_loop()
    running,          \* self.running
    awaited,          \* the to_thread future the daemon awaits
    orphans,          \* check() threads still running whose await was cancelled
    last_apt_cache_mtime,       \* self.last_apt_cache_mtime
    dir_mtime,        \* modification time of config.apt_lists_path
    mtime_at_sleep,   \* history: dir_mtime when the loop last went to sleep
    left_mtime,       \* history: dir_mtime as the daemon's last finished check left it
    \* ---- one AptInterface running check_updates() (apt.py)
    apt_pc,           \* position of the call
    apt_packages,     \* check_updates' packages
    apt_upgrades,     \* history: the names get_upgradable_packages returned
    repo_checksums,   \* what fetch_repository_checksums returned, as stanzas
    all_installed,    \* what _get_all_installed_pamir_packages returned
    installed_idx,    \* position of the rebuild loop in all_installed
    compared,         \* history: the checksums the rebuild loop compared
    \* ---- single calls of the helpers
    val_pc,           \* _validate_package_name: "idle", "returned" or "raised"
    val_in,           \* its argument, as a sequence of characters
    val_out,          \* what it returned: <<>> or <<characters>>
    load_pc,          \* _load_cached_result: "idle", "returned" or "raised"
    loaded,           \* what it returned: <<>> for None or <<result>>
    save_pc,          \* _save_result called on its own: "idle", or how it ended
    save_arg,         \* its argument
    run_pc,           \* _run_command called on its own: "idle", "returned" or "raised"
    run_in,           \* what subprocess.run does with the command
    run_out,          \* what _run_command returned: <<>> or <<stdout, stderr, code>>
    first_cmds,       \* history: the commands of the first of two planning calls
    first_plan        \* history: <<>> or <<what that call returned>>

applyVars == <<lockHolder, pc, actions, cmds, rc, ok, results, ret>>
cfgVars == <<apt_source_file, policy_allow_new_packages, bundle_default>>
checkVars == <<notifiers, ck_pc, ck_kind, packages_dict, bundle_idx, ck_cmds, plan,
               cache, cacheBefore, notified, checks>>

daemonVars == <<start_pc, loop_pc, running, awaited, orphans, last_apt_cache_mtime,
                dir_mtime, mtime_at_sleep, left_mtime>>

aptVars == <<apt_pc, apt_packages, apt_upgrades, repo_checksums, all_installed,
             installed_idx, compared>>

callVars == <<val_pc, val_in, val_out, load_pc, loaded, save_pc, save_arg, run_pc,
              run_in, run_out, first_cmds, first_plan>>

vars == <<applyVars, cfgVars, checkVars, daemonVars, aptVars, callVars>>

\* what the actions of apply() leave alone
notApply == <<cfgVars, checkVars, daemonVars, aptVars, callVars>>
\* what the actions of check() leave alone
notCheck == <<applyVars, cfgVars, daemonVars, aptVars, callVars>>
\* what the actions of the daemon leave alone
notDaemon == <<applyVars, cfgVars, checkVars, aptVars, callVars>>
\* what the actions of AptInterface leave alone
notApt == <<applyVars, cfgVars, checkVars, daemonVars, callVars>>
\* what the single calls of the helpers leave alone
notCall == <<applyVars, cfgVars, checkVars, daemonVars, aptVars>>

----------------------------------------------------------------------------
(***************************************************************************)
(* Pure helpers of apply().                                                *)
(***************************************************************************)

\* Python truthiness of `a.current_version` (str | None): None and "" are falsy
Truthy(v) == v /= NoneV /\ v /= ""

\* mutant: every action goes into the upgrade set
ToUpgradeAll(acts) == acts

\* checker.py:213  to_upgrade = [a for a in actions if a.current_version]
ToUpgrade(acts) == SelectSeq(acts, LAMBDA a : Truthy(a.current_version))

\* checker.py:214  to_install = [a for a in actions if a.current_version is None]
ToInstall(acts) == SelectSeq(acts, LAMBDA a : a.current_version = NoneV)

\* checker.py:216-217  f"{p.name}={p.new_version}" for each package
InstallArgs(pkgs) == [i \in 1..Len(pkgs) |-> <<pkgs[i].name, pkgs[i].new_version>>]

\* Python's max(rc, code)
Max(a, b) == IF a >= b THEN a ELSE b


\* a command handed to _run_command, as the package manager sees it, with the
\* <<stdout, code>> a query came back with (<<>> for the other commands)
Cmd(kind, isolated, only_upgrade, args, out) ==
    [kind |-> kind, isolated |-> isolated, only_upgrade |-> only_upgrade,
     args |-> args, out |-> out]

\* checker.py:376  `if self.config.apt_source_file and not force_full_update`
UseIsolatedCache(force_full_update) == apt_source_file /= NoneV /\ ~force_full_update

\* checker.py:316-319  _get_apt_cache_options returns [] when apt_source_file is
\* unset and otherwise reads self.config.apt_cache_dir, a field that
\* models.py's Config does not declare (pydantic ignores the keyword the tests
\* pass and the attribute read raises AttributeError)
AptCacheOptionsRaises == apt_source_file /= NoneV

\* mutant: the command is built as if force_full_update were never passed
UpdateCacheCmdIgnoresForce(force_full_update) ==
    Cmd("update", apt_source_file /= NoneV, FALSE, <<>>, <<>>)

\* checker.py:373-398  the command _update_cache builds
UpdateCacheCmd(force_full_update) ==
    Cmd("update", UseIsolatedCache(force_full_update), FALSE, <<>>, <<>>)

\* checker.py:376-378  _update_cache raises before it runs anything when it takes
\* the isolated branch
UpdateCacheRaises(force_full_update) ==
    UseIsolatedCache(force_full_update) /\ AptCacheOptionsRaises

\* checker.py:211  self._update_cache(force_full_update=True)
ApplyForceFullUpdate == TRUE

\* checker.py:279-286  installed_version: the query's stdout when it exits 0 with a
\* non-blank output, else None
InstalledVersionOf(stdout, code) == IF code = 0 /\ stdout /= "" THEN stdout ELSE NoneV

\* mutant: ok = (cur == p.new_version), the last package decides
OkAfterLastWins(okBefore, cur, expected) == cur = expected

\* checker.py:248-249  `if cur != p.new_version: ok = False`
OkAfter(okBefore, cur, expected) == IF cur /= expected THEN FALSE ELSE okBefore

\* checker.py:250  rc = rc or 2
RcOr2(r) == IF r /= 0 THEN r ELSE 2

\* checker.py:198-203  the value returned when flock raises BlockingIOError
Rejected ==
    [ok |-> FALSE, rc |-> 1, error |-> "Another update is running", results |-> <<>>]

\* checker.py:277  the value returned after an internal exception
ErrorResult == [ok |-> FALSE, rc |-> 3, error |-> "exception", results |-> <<>>]

\* checker.py:260-267  the value returned after verification
ApplyResult(o, r, res) == [ok |-> o, rc |-> r, error |-> NoneV, results |-> res]

\* mutant: a lock that is never contended (a lock file private to the call)
FlockFreeAlways == TRUE

\* checker.py:196  fcntl.flock(lockf, LOCK_EX | LOCK_NB) succeeds iff no other open
\* file description holds the lock
FlockFree == lockHolder = 0

\* mutant: POSIX record-lock semantics (lockf): closing any description of the
\* file drops the lock whoever holds it
CloseLockFileAny(p) == 0

\* checker.py:194  leaving `with open(lock_path, "w") as lockf` closes the caller's
\* own file description: the lock is dropped iff that description holds it
CloseLockFile(p) == IF lockHolder = p THEN 0 ELSE lockHolder

\* positions of a caller inside apply()'s lock scope
InApply == {"locked", "refreshing", "refreshed", "upgraded", "installed"}

\* positions in which a call is over and its outcome is with the caller
Over == {"returned", "interrupted", "chk_raised"}

\* A call begins only once the outcome of every finished call has been taken
\* (Return).  Return touches nothing but the finished caller's own variables,
\* so every interleaving is equivalent to one in which it comes first.
OutcomesTaken(p) == \A q \in Procs \ {p} : pc[q] \notin Over

----------------------------------------------------------------------------
(***************************************************************************)
(* Spec: apply() and the index refresh of check_updates(), called by       *)
(* Procs concurrently.  The lock file is assumed openable (callers run as  *)
(* root and /run exists).                                                  *)
(***************************************************************************)

\* no apply() in progress
ApplyIdle ==
    /\ lockHolder = 0
    /\ pc = [p \in Procs |-> "idle"]
    /\ actions = [p \in Procs |-> <<>>]
    /\ cmds = [p \in Procs |-> <<>>]
    /\ rc = [p \in Procs |-> 0]
    /\ ok = [p \in Procs |-> TRUE]
    /\ results = [p \in Procs |-> <<>>]
    /\ ret = [p \in Procs |-> <<>>]

\* no check() or check_updates() in progress
CheckIdle ==
    /\ ck_pc = "idle"
    /\ ck_kind = "check"
    /\ packages_dict = <<>>
    /\ bundle_idx = 1
    /\ ck_cmds = <<>>
    /\ plan = <<>>
    /\ cacheBefore = <<>>
    /\ notified = <<>>
    /\ checks = 0

\* daemon.py:27-33  a constructed UpdateDaemon that has not been started
DaemonIdle ==
    /\ start_pc = "init"
    /\ loop_pc = "none"
    /\ running = FALSE
    /\ awaited = "none"
    /\ orphans = 0
    /\ last_apt_cache_mtime = 0
    /\ dir_mtime = 0
    /\ mtime_at_sleep = 0
    /\ left_mtime = 0

\* apt.py:20-25  an AptInterface on which check_updates() has not been called
AptIdle ==
    /\ apt_pc = "idle"
    /\ apt_packages = <<>>
    /\ apt_upgrades = <<>>
    /\ repo_checksums = <<>>
    /\ all_installed = <<>>
    /\ installed_idx = 1
    /\ compared = <<>>

\* no helper has been called
CallIdle ==
    /\ val_pc = "idle"
    /\ val_in = <<>>
    /\ val_out = <<>>
    /\ load_pc = "idle"
    /\ loaded = <<>>
    /\ save_pc = "idle"
    /\ save_arg = <<>>
    /\ run_pc = "idle"
    /\ run_in = <<>>
    /\ run_out = <<>>
    /\ first_cmds = <<>>
    /\ first_plan = <<>>

Init ==
    /\ ApplyIdle
    /\ apt_source_file \in {NoneV, "sources.list.d/pamir-ai.list"}
    /\ policy_allow_new_packages = TRUE
    /\ bundle_default = <<>>
    /\ notifiers = <<>>
    /\ cache = <<>>
    /\ CheckIdle
    /\ DaemonIdle
    /\ AptIdle
    /\ CallIdle

\* checker.py:187-196, 205-209  apply(acts) is called and flock succeeds
ApplyAcquire(p) ==
    /\ pc[p] = "idle"
    /\ OutcomesTaken(p)
    /\ FlockFree
    /\ \E acts \in ActionLists : actions' = [actions EXCEPT ![p] = acts]
    /\ lockHolder' = p
    /\ pc' = [pc EXCEPT ![p] = "locked"]
    /\ cmds' = [cmds EXCEPT ![p] = <<>>]
    /\ rc' = [rc EXCEPT ![p] = 0]
    /\ ok' = [ok EXCEPT ![p] = TRUE]
    /\ results' = [results EXCEPT ![p] = <<>>]
    /\ ret' = [ret EXCEPT ![p] = <<>>]
    /\ UNCHANGED notApply

\* checker.py:194-203  apply() is called and flock raises BlockingIOError: the
\* rejection is returned through the `with`, which closes the caller's file
ApplyRejected(p) ==
    /\ pc[p] = "idle"
    /\ OutcomesTaken(p)
    /\ ~FlockFree
    /\ lockHolder' = CloseLockFile(p)
    /\ pc' = [pc EXCEPT ![p] = "returned"]
    /\ cmds' = [cmds EXCEPT ![p] = <<>>]
    /\ ret' = [ret EXCEPT ![p] = <<Rejected>>]
    /\ UNCHANGED <<actions, rc, ok, results>>
    /\ UNCHANGED notApply

\* mutant: the error path returns without closing the lock file
RaiseInApplyKeepsLock(p) ==
    /\ lockHolder' = lockHolder
    /\ pc' = [pc EXCEPT ![p] = "returned"]
    /\ ret' = [ret EXCEPT ![p] = <<ErrorResult>>]
    /\ actions' = [actions EXCEPT ![p] = <<>>]
    /\ cmds' = [cmds EXCEPT ![p] = <<>>]
    /\ rc' = [rc EXCEPT ![p] = 0]
    /\ ok' = [ok EXCEPT ![p] = TRUE]
    /\ results' = [results EXCEPT ![p] = <<>>]

\* checker.py:273-277  an exception inside the `with open` block: the file is
\* closed on the way out and the rc=3 result is returned (the locals of the
\* block are gone)
RaiseInApply(p) ==
    /\ lockHolder' = CloseLockFile(p)
    /\ pc' = [pc EXCEPT ![p] = "returned"]
    /\ ret' = [ret EXCEPT ![p] = <<ErrorResult>>]
    /\ actions' = [actions EXCEPT ![p] = <<>>]
    /\ cmds' = [cmds EXCEPT ![p] = <<>>]
    /\ rc' = [rc EXCEPT ![p] = 0]
    /\ ok' = [ok EXCEPT ![p] = TRUE]
    /\ results' = [results EXCEPT ![p] = <<>>]

\* checker.py:211, 362-398  apply() starts its index refresh
ApplyRefreshBegin(p) ==
    /\ pc[p] = "locked"
    /\ IF UpdateCacheRaises(ApplyForceFullUpdate)
       THEN RaiseInApply(p)
       ELSE /\ cmds' = [cmds EXCEPT ![p] = Append(@, UpdateCacheCmd(ApplyForceFullUpdate))]
            /\ pc' = [pc EXCEPT ![p] = "refreshing"]
            /\ UNCHANGED <<lockHolder, ret, actions, rc, ok, results>>
    /\ UNCHANGED notApply

\* checker.py:211, 398-416  the refresh command returns; apply() ignores its result
ApplyRefreshEnd(p) ==
    /\ pc[p] = "refreshing"
    /\ \E code \in ExitCodes : TRUE
    /\ pc' = [pc EXCEPT ![p] = "refreshed"]
    /\ UNCHANGED <<lockHolder, actions, cmds, rc, ok, results, ret>>
    /\ UNCHANGED notApply

\* checker.py:225-239  one bulk install invocation for a non-empty argument list;
\* none for an empty one
BulkInstall(p, pkgs, only_upgrade) ==
    LET args == InstallArgs(pkgs) IN
    IF args /= <<>>
    THEN \E code \in InstallCodes :
            /\ cmds' = [cmds EXCEPT ![p] = Append(@, Cmd("install", FALSE, only_upgrade, args, <<>>))]
            /\ rc' = [rc EXCEPT ![p] = Max(@, code)]
    ELSE UNCHANGED <<cmds, rc>>

\* checker.py:213-231  the --only-upgrade invocation
ApplyUpgrade(p) ==
    /\ pc[p] = "refreshed"
    /\ BulkInstall(p, ToUpgrade(actions[p]), TRUE)
    /\ pc' = [pc EXCEPT ![p] = "upgraded"]
    /\ UNCHANGED <<lockHolder, actions, ok, results, ret>>
    /\ UNCHANGED notApply

\* checker.py:233-239  the plain install invocation
ApplyInstall(p) ==
    /\ pc[p] = "upgraded"
    /\ BulkInstall(p, ToInstall(actions[p]), FALSE)
    /\ pc' = [pc EXCEPT ![p] = "installed"]
    /\ UNCHANGED <<lockHolder, actions, ok, results, ret>>
    /\ UNCHANGED notApply

\* checker.py:243-250  one turn of the verification loop
ApplyVerifyOne(p) ==
    /\ pc[p] = "installed"
    /\ Len(results[p]) < Len(actions[p])
    /\ LET a == actions[p][Len(results[p]) + 1] IN
       \E out \in QueryOutcomes :
          LET cur == InstalledVersionOf(out[1], out[2]) IN
          /\ cmds' = [cmds EXCEPT ![p] = Append(@, Cmd("query", FALSE, FALSE, <<a.name>>, out))]
          /\ results' = [results EXCEPT ![p] =
                Append(@, [name |-> a.name, installed |-> cur, expected |-> a.new_version])]
          /\ ok' = [ok EXCEPT ![p] = OkAfter(@, cur, a.new_version)]
          /\ rc' = [rc EXCEPT ![p] = IF cur /= a.new_version THEN RcOr2(@) ELSE @]
    /\ UNCHANGED <<lockHolder, pc, actions, ret>>
    /\ UNCHANGED notApply

\* checker.py:252-267  apply() returns its result; the `with` closes the lock file
ApplyFinish(p) ==
    /\ pc[p] = "installed"
    /\ Len(results[p]) = Len(actions[p])
    /\ ret' = [ret EXCEPT ![p] = <<ApplyResult(ok[p], rc[p], results[p])>>]
    /\ lockHolder' = CloseLockFile(p)
    /\ pc' = [pc EXCEPT ![p] = "returned"]
    /\ UNCHANGED <<actions, cmds, rc, ok, results>>
    /\ UNCHANGED notApply

\* checker.py:273-277  a statement of the locked block raises an Exception (for
\* example an action that is no Package)
ApplyException(p) ==
    /\ pc[p] \in InApply \ {"refreshing"}
    /\ RaiseInApply(p)
    /\ UNCHANGED notApply

\* checker.py:269-271  KeyboardInterrupt inside apply(): logged and re-raised; the
\* `with` closes the lock file while the exception unwinds
ApplyInterrupt(p) ==
    /\ pc[p] \in InApply
    /\ lockHolder' = CloseLockFile(p)
    /\ pc' = [pc EXCEPT ![p] = "interrupted"]
    /\ actions' = [actions EXCEPT ![p] = <<>>]
    /\ cmds' = [cmds EXCEPT ![p] = <<>>]
    /\ rc' = [rc EXCEPT ![p] = 0]
    /\ ok' = [ok EXCEPT ![p] = TRUE]
    /\ results' = [results EXCEPT ![p] = <<>>]
    /\ UNCHANGED ret
    /\ UNCHANGED notApply

\* checker.py:75-76, 362-398  check_updates(refresh=True) starts its index refresh
CheckRefreshBegin(p) ==
    /\ pc[p] = "idle"
    /\ OutcomesTaken(p)
    /\ IF UpdateCacheRaises(FALSE)
       THEN /\ pc' = [pc EXCEPT ![p] = "chk_raised"]
            /\ cmds' = [cmds EXCEPT ![p] = <<>>]
       ELSE /\ cmds' = [cmds EXCEPT ![p] = <<UpdateCacheCmd(FALSE)>>]
            /\ pc' = [pc EXCEPT ![p] = "chk_refreshing"]
    /\ UNCHANGED <<lockHolder, actions, rc, ok, results, ret>>
    /\ UNCHANGED notApply

\* checker.py:76-78, 398-416  the refresh command of check_updates() returns.  The
\* rest of check_updates() takes no lock and changes no package; SpecCheck
\* models it command by command, and here the caller is done.
CheckRefreshEnd(p) ==
    /\ pc[p] = "chk_refreshing"
    /\ \E code \in ExitCodes : TRUE
    /\ pc' = [pc EXCEPT ![p] = "idle"]
    /\ cmds' = [cmds EXCEPT ![p] = <<>>]
    /\ UNCHANGED <<lockHolder, actions, rc, ok, results, ret>>
    /\ UNCHANGED notApply

\* the caller takes the returned value or the exception; the call is over
Return(p) ==
    /\ pc[p] \in Over
    /\ pc' = [pc EXCEPT ![p] = "idle"]
    /\ actions' = [actions EXCEPT ![p] = <<>>]
    /\ cmds' = [cmds EXCEPT ![p] = <<>>]
    /\ rc' = [rc EXCEPT ![p] = 0]
    /\ ok' = [ok EXCEPT ![p] = TRUE]
    /\ results' = [results EXCEPT ![p] = <<>>]
    /\ ret' = [ret EXCEPT ![p] = <<>>]
    /\ UNCHANGED <<lockHolder>>
    /\ UNCHANGED notApply

Next ==
    \E p \in Procs :
        \/ ApplyAcquire(p)
        \/ ApplyRejected(p)
        \/ ApplyRefreshBegin(p)
        \/ ApplyRefreshEnd(p)
        \/ ApplyUpgrade(p)
        \/ ApplyInstall(p)
        \/ ApplyVerifyOne(p)
        \/ ApplyFinish(p)
        \/ ApplyException(p)
        \/ ApplyInterrupt(p)
        \/ CheckRefreshBegin(p)
        \/ CheckRefreshEnd(p)
        \/ Return(p)

Spec == Init /\ [][Next]_vars


----------------------------------------------------------------------------
(***************************************************************************)
(* Properties of apply() and the lock (checked under Spec).                *)
(***************************************************************************)

\* the caller's step from "idle" into apply(): the call
ApplyCallStep(p) == pc[p] = "idle" /\ pc'[p] \in InApply \cup {"returned", "interrupted"}

\* apply() has returned a verified result (success or partial failure)
Verified(p) == pc[p] = "returned" /\ ret[p] /= <<>> /\ ret[p][1].error = NoneV

\* the install commands among a command trace
Installs(c) == SelectSeq(c, LAMBDA x : x.kind = "install")

\* C1: apply() called while another caller holds the lock returns at once the value
\* {ok: false, rc: 1, error: "Another update is running"}; it has issued no
\* external command and has not touched the lock.
C1_RejectedWhileLocked ==
    [][\A p \in Procs :
         (ApplyCallStep(p) /\ lockHolder \notin {0, p}) =>
            /\ pc'[p] = "returned"
            /\ ret'[p] = <<[ok |-> FALSE, rc |-> 1,
                            error |-> "Another update is running", results |-> <<>>]>>
            /\ cmds'[p] = <<>>
            /\ lockHolder' = lockHolder]_vars

\* C1 witness: a caller was rejected while the holder is in the middle of its run
C1_Witness ==
    \E p \in Procs :
        /\ pc[p] = "returned"
        /\ ret[p] /= <<>> /\ ret[p][1].error = "Another update is running"
        /\ cmds[p] = <<>>
        /\ lockHolder \notin {0, p}
        /\ pc[lockHolder] = "upgraded"

\* C2: at most one caller is between acquiring the lock and returning, that caller
\* is the lock's holder, and an apply() called meanwhile is rejected.
C2_MutualExclusion ==
    /\ [](/\ Cardinality({p \in Procs : pc[p] \in InApply}) <= 1
          /\ \A p \in Procs : pc[p] \in InApply => lockHolder = p)
    /\ [][\A p \in Procs :
            (ApplyCallStep(p) /\ \E q \in Procs \ {p} : pc[q] \in InApply) =>
                /\ pc'[p] = "returned"
                /\ ret'[p] /= <<>>
                /\ ret'[p][1].error = "Another update is running"]_vars

\* C2 witness: one caller is refreshing the index under the lock while another
\* caller's apply() has come back rejected
C2_Witness ==
    \E p, q \in Procs :
        /\ p /= q
        /\ pc[p] = "refreshing" /\ lockHolder = p
        /\ pc[q] = "returned" /\ ret[q] /= <<>> /\ ret[q][1].rc = 1

\* C3: the lock is held by nobody who is not inside apply(): once apply() has
\* returned (success, partial failure, rc=3) or raised KeyboardInterrupt, its
\* caller no longer holds the lock.
C3_LockReleasedOnExit ==
    /\ lockHolder \in {0} \cup Procs
    /\ \A p \in Procs : pc[p] \notin InApply => lockHolder /= p

\* C3 witness: apply() came back with rc=3 and the lock is free
C3_Witness ==
    \E p \in Procs :
        /\ pc[p] = "returned"
        /\ ret[p] /= <<>> /\ ret[p][1].rc = 3
        /\ lockHolder = 0

\* C4: every index refresh in flight, apply()'s or check_updates()'s, belongs to
\* the holder of the lock, so no two refreshes are in flight together.
C4_RefreshOnlyUnderLock ==
    /\ \A p \in Procs : pc[p] \in {"refreshing", "chk_refreshing"} => lockHolder = p
    /\ \A p, q \in Procs :
          (p /= q /\ pc[p] \in {"refreshing", "chk_refreshing"})
              => pc[q] \notin {"refreshing", "chk_refreshing"}

\* C4: the state the lock scope is meant to exclude: apply()'s refresh and a
\* check's refresh of the same system cache in flight together
C4_ConcurrentRefreshes ==
    \E p, q \in Procs :
        /\ pc[p] = "refreshing" /\ lockHolder = p
        /\ pc[q] = "chk_refreshing"
        /\ cmds[p][1] = cmds[q][1]

\* C5: in a run that holds the lock the commands come in the order refresh,
\* installs, verification queries: nothing is issued before the refresh, the
\* refresh is the only one and is a full one (never the isolated options), no
\* install is issued until the refresh has returned, and no query comes before
\* an install.
C5_PhaseOrder ==
    \A p \in Procs :
        LET c == cmds[p] IN
        /\ pc[p] = "locked" => c = <<>>
        /\ (pc[p] \in InApply \ {"locked"} \/ Verified(p)) =>
              /\ Len(c) >= 1
              /\ c[1].kind = "update" /\ ~c[1].isolated
              /\ \A i \in 2..Len(c) : c[i].kind \in {"install", "query"}
              /\ \A i, j \in 1..Len(c) :
                    (c[i].kind = "query" /\ c[j].kind = "install") => j < i
        /\ pc[p] \in {"refreshing", "refreshed"} => Len(c) = 1
        /\ pc[p] = "upgraded" => \A i \in 1..Len(c) : c[i].kind /= "query"

\* C5 witness: a verified run, with apt_source_file set, that issued the refresh, both
\* install commands and the queries
C5_Witness ==
    \E p \in Procs :
        /\ Verified(p)
        /\ apt_source_file /= NoneV
        /\ Len(Installs(cmds[p])) = 2
        /\ cmds[p][Len(cmds[p])].kind = "query"

\* the "name=version" arguments the claim expects for the actions that satisfy keep
ExpectedArgs(acts, keep(_)) ==
    LET sel == SelectSeq(acts, keep)
    IN  [i \in 1..Len(sel) |-> <<sel[i].name, sel[i].new_version>>]

QueryNo(c, i) == SelectSeq(c, LAMBDA x : x.kind = "query")[i]

\* what the claim expects installed to be for a query that came back with out:
\* the version the query printed, None when it failed or printed nothing
Reported(out) == IF out[2] /= 0 \/ out[1] = "" THEN NoneV ELSE out[1]

\* C7: verification records one result per action, in the order of the action
\* list, with expected = new_version and installed = what the post-install query
\* for that name reported (None when it failed or printed nothing); ok holds
\* exactly when every recorded installed equals its expected.
C7_VerifyResults ==
    \A p \in Procs :
        /\ pc[p] = "installed" =>
              /\ Len(results[p]) <= Len(actions[p])
              /\ \A i \in 1..Len(results[p]) :
                    /\ results[p][i].name = actions[p][i].name
                    /\ results[p][i].expected = actions[p][i].new_version
                    /\ QueryNo(cmds[p], i).args = <<actions[p][i].name>>
                    /\ results[p][i].installed = Reported(QueryNo(cmds[p], i).out)
              /\ ok[p] <=> \A i \in 1..Len(results[p]) :
                              results[p][i].installed = results[p][i].expected
        /\ Verified(p) =>
              /\ Len(ret[p][1].results) = Len(actions[p])
              /\ \A i \in 1..Len(actions[p]) :
                    /\ ret[p][1].results[i].name = actions[p][i].name
                    /\ ret[p][1].results[i].expected = actions[p][i].new_version
                    /\ ret[p][1].results[i].installed = Reported(QueryNo(cmds[p], i).out)
              /\ ret[p][1].ok <=> \A i \in 1..Len(actions[p]) :
                                     ret[p][1].results[i].installed = actions[p][i].new_version

\* C7 witness: the first package failed verification, the second passed, and both
\* results are in the returned value
C7_Witness ==
    \E p \in Procs :
        /\ Verified(p)
        /\ Len(ret[p][1].results) = 2
        /\ ret[p][1].results[1].installed /= ret[p][1].results[1].expected
        /\ ret[p][1].results[2].installed = ret[p][1].results[2].expected
        /\ ~ret[p][1].ok

----------------------------------------------------------------------------
(***************************************************************************)
(* Pure helpers of the planning path (check_updates and what it calls).    *)
(***************************************************************************)

\* models.py:76  Config.distribution, at its default
distribution == "stable"

\* The names the model's commands and configuration mention, spelled out:
\* Python works on the characters, TLC's strings are atoms.
Spell ==
    "pkga" :> <<"p", "k", "g", "a">> @@ "pkgb" :> <<"p", "k", "g", "b">> @@
    "pkgc" :> <<"p", "k", "g", "c">> @@ "Pkg_" :> <<"P", "k", "g", "_">> @@
    "vibe" :> <<"v", "i", "b", "e">> @@ "vibes" :> <<"v", "i", "b", "e", "s">> @@
    "zlib" :> <<"z", "l", "i", "b">> @@
    "stable" :> <<"s", "t", "a", "b", "l", "e">> @@
    "unstable" :> <<"u", "n", "s", "t", "a", "b", "l", "e">> @@
    "testing" :> <<"t", "e", "s", "t", "i", "n", "g">> @@
    "distiller" :> <<"d", "i", "s", "t", "i", "l", "l", "e", "r">> @@
    "pamir" :> <<"p", "a", "m", "i", "r">> @@
    "" :> <<>>

\* code points of the characters above (Python compares strings by code point)
CharCode ==
    "P" :> 80 @@ "_" :> 95 @@ "a" :> 97 @@ "b" :> 98 @@ "c" :> 99 @@ "g" :> 103 @@
    "k" :> 107 @@ "p" :> 112 @@ " " :> 32 @@ "d" :> 100 @@ "e" :> 101 @@ "i" :> 105 @@
    "l" :> 108 @@ "m" :> 109 @@ "n" :> 110 @@ "r" :> 114 @@ "s" :> 115 @@ "t" :> 116 @@
    "u" :> 117 @@ "v" :> 118 @@ "z" :> 122

\* Python's `a < b` on two sequences of characters
RECURSIVE CharsLess(_, _)
CharsLess(a, b) ==
    IF b = <<>> THEN FALSE
    ELSE IF a = <<>> THEN TRUE
    ELSE IF CharCode[Head(a)] /= CharCode[Head(b)] THEN CharCode[Head(a)] < CharCode[Head(b)]
    ELSE CharsLess(Tail(a), Tail(b))

\* Python's `a < b` on two strings
StrLess(a, b) == CharsLess(Spell[a], Spell[b])

Whitespace == {" "}
LowerAlnum ==
    {"a", "b", "c", "d", "e", "f", "g", "h", "i", "j", "k", "l", "m", "n", "o", "p", "q",
     "r", "s", "t", "u", "v", "w", "x", "y", "z",
     "0", "1", "2", "3", "4", "5", "6", "7", "8", "9"}

\* Python's str.strip() on a sequence of characters
RECURSIVE Strip(_)
Strip(s) ==
    IF s = <<>> THEN s
    ELSE IF Head(s) \in Whitespace THEN Strip(Tail(s))
    ELSE IF s[Len(s)] \in Whitespace THEN Strip(SubSeq(s, 1, Len(s) - 1))
    ELSE s

\* checker.py:18  VALID_PACKAGE_NAME = ^[a-z0-9][a-z0-9+\-.]+$
MatchesValidPackageName(s) ==
    /\ Len(s) >= 2
    /\ s[1] \in LowerAlnum
    /\ \A i \in 2..Len(s) : s[i] \in LowerAlnum \cup {"+", "-", "."}

\* the string spelled s
Unspell(s) == CHOOSE n \in DOMAIN Spell : Spell[n] = s

\* checker.py:32  len(package_name) > 255
MaxPackageNameLen == 255

ValidateCharsNoLimit(chars) ==
    LET s == Strip(chars)
    IN  IF s = <<>> \/ ~MatchesValidPackageName(s) THEN <<>> ELSE <<s>>

\* checker.py:29-34  _validate_package_name on the characters of its argument:
\* <<the stripped characters>>, or <<>> when it raises ValueError
ValidateChars(chars) ==
    LET s == Strip(chars)
    IN  IF s = <<>> \/ Len(s) > MaxPackageNameLen \/ ~MatchesValidPackageName(s) THEN <<>>
        ELSE <<s>>

\* checker.py:29-34  _validate_package_name: <<the stripped name>>, or <<>> when it
\* raises ValueError
ValidatePackageName(name) ==
    LET r == ValidateChars(Spell[name])
    IN  IF r = <<>> THEN <<>> ELSE <<Unspell(r[1])>>

\* Python's str.lower() on the distribution suffixes the model uses
Lower(d) == IF d = "Stable" THEN "stable" ELSE d

\* One line of `apt list --upgradable`: the part before "[upgradable from:" split
\* on whitespace into tokens, each token split on "/", and the old version that
\* follows the marker (<<>> when the line has no marker).
AptLine(tokens, from) == [tokens |-> tokens, from |-> from]

AptLines ==
    { AptLine(<<<<"pkga", "stable">>, <<"2.0">>, <<"arm64">>>>, <<"1.0">>),
      AptLine(<<<<"pkga", "stable">>, <<"3.0">>, <<"arm64">>>>, <<"1.5">>),
      AptLine(<<<<"pkgb", "testing">>, <<"2.0">>, <<"arm64">>>>, <<"1.0">>),
      AptLine(<<<<"pkgb", "Stable">>, <<"2.0">>, <<"arm64">>>>, <<"">>),
      AptLine(<<<<"Pkg_", "stable">>, <<"2.0">>, <<"arm64">>>>, <<"1.0">>),
      AptLine(<<<<"Listing...">>>>, <<>>) }

\* checker.py:103  `not line or line.startswith("Listing") or "/" not in line`
LineIgnored(line) ==
    \/ line.tokens = <<>> /\ line.from = <<>>
    \/ line.tokens /= <<>> /\ line.tokens[1][1] = "Listing..."
    \/ \A i \in 1..Len(line.tokens) : Len(line.tokens[i]) < 2

InDictNever(dict, name) == FALSE

\* `name in packages_dict`
InDict(dict, name) == \E i \in 1..Len(dict) : dict[i].name = name

\* models.py:9-13  Package(name, current_version, new_version, size)
NewPackage(name, current_version, new_version, size) ==
    [name |-> name, current_version |-> current_version, new_version |-> new_version,
     size |-> size]

\* checker.py:102-149  the body of the loop over the lines: packages_dict after
\* one line
AddLine(dict, line) ==
    IF LineIgnored(line) THEN dict
    ELSE IF line.from = <<>> THEN dict
    ELSE IF Len(line.tokens) < 2 THEN dict
    ELSE LET name_dist == line.tokens[1]
             new_version == line.tokens[2][1]
             dist == IF Len(name_dist) > 1 THEN name_dist[2] ELSE ""
             valid == ValidatePackageName(name_dist[1])
         IN  IF valid = <<>> THEN dict
             ELSE IF apt_source_file = NoneV /\ distribution /= Lower(dist) THEN dict
             ELSE IF InDict(dict, valid[1]) THEN dict
             ELSE Append(dict, NewPackage(valid[1], line.from[1], new_version, 0))

RECURSIVE AddLinesLastFirst(_, _)
AddLinesLastFirst(dict, lines) ==
    IF lines = <<>> THEN dict
    ELSE AddLinesLastFirst(AddLine(dict, lines[Len(lines)]), SubSeq(lines, 1, Len(lines) - 1))

\* checker.py:100-149  packages_dict after every line of stdout
RECURSIVE AddLines(_, _)
AddLines(dict, lines) ==
    IF lines = <<>> THEN dict ELSE AddLines(AddLine(dict, Head(lines)), Tail(lines))

\* what `apt list --upgradable` can come back with through _run_command, as
\* <<stdout lines, code>>: any output of at most MaxLines lines, or a failure
\* (non-zero exit; timeout or spawn failure, which the runner turns into 1)
ListOutcomes ==
    {<<lines, 0>> : lines \in SeqsUpTo(AptLines, MaxLines)} \cup {<<<<>>, 1>>, <<<<>>, 100>>}

\* what `apt-cache policy name` can come back with, as <<stdout lines, code>>,
\* each line as <<the text before the first ":", the text after it>>
PolicyOutcomes ==
    { <<<<>>, 1>>,
      <<<< <<"Installed", "(none)">>, <<"Candidate", "2.0">> >>, 0>>,
      <<<< <<"Installed", "(none)">>, <<"Candidate", "(none)">> >>, 0>> }

\* checker.py:299-304  the first "Candidate:" line decides
RECURSIVE FirstCandidate(_)
FirstCandidate(lines) ==
    IF lines = <<>> THEN NoneV
    ELSE IF Head(lines)[1] = "Candidate"
         THEN IF Head(lines)[2] \in {"(none)", "none"} THEN NoneV ELSE Head(lines)[2]
    ELSE FirstCandidate(Tail(lines))

\* checker.py:296-304  candidate_version from the command's outcome
CandidateOf(stdout, code) == IF code /= 0 THEN NoneV ELSE FirstCandidate(stdout)

KeyLessByName(a, b) == StrLess(a.name, b.name)

\* checker.py:168  the key of sorted(): (current_version is None, name)
KeyLess(a, b) ==
    LET an == a.current_version = NoneV
        bn == b.current_version = NoneV
    IN  (~an /\ bn) \/ (an = bn /\ StrLess(a.name, b.name))

\* x put behind every element that does not sort after it (sorted() is stable)
RECURSIVE Insert(_, _)
Insert(sorted, x) ==
    IF sorted = <<>> THEN <<x>>
    ELSE IF KeyLess(x, Head(sorted)) THEN <<x>> \o sorted
    ELSE <<Head(sorted)>> \o Insert(Tail(sorted), x)

\* checker.py:168  sorted(packages_dict.values(), key=...)
RECURSIVE SortedPackages(_)
SortedPackages(dict) ==
    IF dict = <<>> THEN <<>>
    ELSE Insert(SortedPackages(SubSeq(dict, 1, Len(dict) - 1)), dict[Len(dict)])

\* Python's int() on the size texts of the model: <<n>>, or <<>> for ValueError
ParseInt == "1024" :> <<1024>> @@ "2048" :> <<2048>> @@ "7" :> <<7>> @@ "abc" :> <<>>

\* what `apt-cache show names...` can come back with, as <<stdout lines, code>>,
\* each line as <<the text before the first ":", the text after it>>
ShowOutcomes ==
    { <<<<>>, 100>>,
      <<<< <<"Package", "pkga">>, <<"Size", "1024">>, <<"Package", "pkgb">>,
           <<"Size", "abc">>, <<"Package", "pkgc">>, <<"Size", "2048">> >>, 0>>,
      <<<< <<"Size", "7">>, <<"Package", "pkga">> >>, 0>> }

\* checker.py:438-451  the loop over the lines of `apt-cache show`: sizes maps a
\* name to <<>> (no entry) or <<size>>
RECURSIVE SizesFrom(_, _, _)
SizesFrom(sizes, current_package, lines) ==
    IF lines = <<>> THEN sizes
    ELSE LET line == Head(lines)
         IN  IF line[1] = "Package" THEN SizesFrom(sizes, line[2], Tail(lines))
             ELSE IF line[1] = "Size" /\ current_package /= NoneV
                  THEN LET n == ParseInt[line[2]]
                           size == IF n = <<>> THEN 0 ELSE n[1]
                       IN  SizesFrom([sizes EXCEPT ![current_package] = <<size>>],
                                     current_package, Tail(lines))
             ELSE SizesFrom(sizes, current_package, Tail(lines))

\* checker.py:432-462  _get_package_sizes from the command's outcome; a name
\* without an entry gets 0 (also what package_sizes.get(name, 0) gives)
PackageSizes(stdout, code) ==
    LET none == [n \in DOMAIN Spell |-> <<>>]
        sizes == IF code /= 0 THEN none ELSE SizesFrom(none, NoneV, stdout)
    IN  [n \in DOMAIN Spell |-> IF sizes[n] = <<>> THEN 0 ELSE sizes[n][1]]

\* a size pass that drops the packages it has no size for
WithSizesDropUnsized(packages, sizes) ==
    SelectSeq([i \in 1..Len(packages) |-> [packages[i] EXCEPT !.size = sizes[packages[i].name]]],
              LAMBDA pkg : pkg.size /= 0)

\* checker.py:173-174  pkg.size = package_sizes.get(pkg.name, 0)
WithSizes(packages, sizes) ==
    [i \in 1..Len(packages) |-> [packages[i] EXCEPT !.size = sizes[packages[i].name]]]

\* [p.name for p in packages]
NamesOf(packages) == [i \in 1..Len(packages) |-> packages[i].name]

\* checker.py:54-58  UpdateResult(packages, checked_at=now, distribution)
UpdateResult(packages, checked_at) ==
    [packages |-> packages, checked_at |-> checked_at, distribution |-> distribution]

\* the result of an earlier run
PriorResult == UpdateResult(<<>>, 0)

\* JSON values: null, a string, a number
JsonNull == [json |-> "null"]
JsonStr(s) == [json |-> "string", value |-> s]
JsonNum(n) == [json |-> "number", value |-> n]

\* datetime.isoformat() of the clock values of the model, as pydantic's
\* model_dump(mode="json") writes a datetime
IsoFormat ==
    0 :> "2026-01-01T00:00:00" @@ 1 :> "2026-01-01T00:00:01" @@ 2 :> "2026-01-01T00:00:02"

\* pydantic's parse of a datetime field: <<the datetime>>, or <<>> when the
\* text is no date
ParseIso(text) ==
    IF \E t \in DOMAIN IsoFormat : IsoFormat[t] = text
    THEN <<CHOOSE t \in DOMAIN IsoFormat : IsoFormat[t] = text>>
    ELSE <<>>

PackageToJsonNoneAsText(p) ==
    [name |-> JsonStr(p.name),
     current_version |-> JsonStr(IF p.current_version = NoneV THEN "None"
                                 ELSE p.current_version),
     new_version |-> JsonStr(p.new_version),
     size |-> JsonNum(p.size)]

\* models.py:9-13  a Package in the dump: None becomes null
PackageToJson(p) ==
    [name |-> JsonStr(p.name),
     current_version |-> IF p.current_version = NoneV THEN JsonNull
                         ELSE JsonStr(p.current_version),
     new_version |-> JsonStr(p.new_version),
     size |-> JsonNum(p.size)]

\* checker.py:468-469  result.model_dump(mode="json") and json.dumps: the text
\* of last_check.json as the JSON document it spells
Dump(result) ==
    [packages |-> [i \in 1..Len(result.packages) |-> PackageToJson(result.packages[i])],
     checked_at |-> JsonStr(IsoFormat[result.checked_at]),
     distribution |-> JsonStr(result.distribution)]

\* a last_check.json whose write did not complete: no JSON document
Truncated == [truncated |-> TRUE]

\* a last_check.json that is JSON but whose checked_at is no date
BadDate ==
    [packages |-> <<>>, checked_at |-> JsonStr("yesterday"), distribution |-> JsonStr("stable")]

\* models.py:9-13  the fields of a JSON object pass Package's validation
PackageValid(j) ==
    /\ j.name.json = "string"
    /\ j.current_version.json \in {"string", "null"}
    /\ j.new_version.json = "string"
    /\ j.size.json = "number"

\* models.py:9-13  the Package a valid JSON object is read as: null becomes None
PackageFromJson(j) ==
    NewPackage(j.name.value,
               IF j.current_version.json = "null" THEN NoneV ELSE j.current_version.value,
               j.new_version.value, j.size.value)

\* checker.py:488  UpdateResult.model_validate_json(content): <<the result>>, or
\* <<>> when it raises (no JSON, or a field that fails its validation)
ValidateJson(doc) ==
    IF doc = Truncated THEN <<>>
    ELSE IF \E i \in 1..Len(doc.packages) : ~PackageValid(doc.packages[i]) THEN <<>>
    ELSE IF doc.checked_at.json /= "string" \/ ParseIso(doc.checked_at.value) = <<>> THEN <<>>
    ELSE IF doc.distribution.json /= "string" THEN <<>>
    ELSE <<[packages |-> [i \in 1..Len(doc.packages) |-> PackageFromJson(doc.packages[i])],
            checked_at |-> ParseIso(doc.checked_at.value)[1],
            distribution |-> doc.distribution.value]>>

CacheErrorEscapesWhenFailed(failed) == failed

\* checker.py:472, 489  `except Exception` around the whole of the save and of
\* the read: whether the exception of a failed cache operation leaves the
\* method
CacheErrorEscapes(failed) == FALSE

\* checker.py:479-491  _load_cached_result on a file with the content (<<>> for
\* no file): <<the result>>, or <<>> for None
LoadCachedResult(content) ==
    IF content = <<>> THEN <<>> ELSE ValidateJson(content[1])

\* checker.py:466-476  _save_result: the dump or open() fails (file untouched),
\* write() fails after open(..., "w") truncated the file, or the file is written
SaveOutcomes == {"written", "open_failed", "write_failed"}
SavedCache(outcome, result) ==
    CASE outcome = "written" -> <<Dump(result)>>
      [] outcome = "open_failed" -> cache
      [] outcome = "write_failed" -> <<Truncated>>

\* the notifier lists of the model: for each notifier, whether notify() raises
NotifierLists == {<<>>, <<"raises", "ok">>}
\* the curated bundles of the model
Bundles == {<<>>, <<"pkgc", "pkga">>, <<"Pkg_">>}

----------------------------------------------------------------------------
(***************************************************************************)
(* SpecCheck: one call of check() or check_updates() on an UpdateChecker,  *)
(* one external command at a time.                                         *)
(***************************************************************************)

InitCheck ==
    /\ ApplyIdle
    /\ apt_source_file \in {NoneV, "sources.list.d/pamir-ai.list"}
    /\ policy_allow_new_packages \in BOOLEAN
    /\ bundle_default \in Bundles
    /\ notifiers \in NotifierLists
    /\ cache \in {<<>>, <<Dump(PriorResult)>>}
    /\ CheckIdle
    /\ DaemonIdle
    /\ AptIdle
    /\ CallIdle

\* mutant: check() stores an empty result before it re-raises
RaiseInCheckAfterSave ==
    /\ ck_pc' = "raised"
    /\ cache' = <<Dump(UpdateResult(<<>>, checks))>>
    /\ UNCHANGED notified

\* checker.py:65-67  an exception of check_updates() leaves check() through
\* `except Exception: ... raise`: lines 60-61 are not reached
RaiseInCheck ==
    /\ ck_pc' = "raised"
    /\ UNCHANGED <<cache, notified>>

\* No change of the package manager's state between two planning calls: the
\* n-th command of the second call, when it is the command the first call
\* issued there, comes back with what it came back with then.
Replays(n, kind, out) ==
    (first_plan /= <<>> /\ n <= Len(first_cmds) /\ first_cmds[n].kind = kind) =>
        out = first_cmds[n].out

\* checker.py:50-53, 69-75  check(), which calls check_updates() with its default
\* refresh=True, or check_updates(refresh) is called
CkCall ==
    /\ ck_pc = "idle"
    /\ checks = 0
    /\ \E kind \in {"check", "check_updates"}, refresh \in BOOLEAN :
         /\ kind = "check" => refresh
         /\ ck_kind' = kind
         /\ ck_pc' = IF refresh THEN "refresh" ELSE "list"
    /\ checks' = checks + 1
    /\ cacheBefore' = cache
    /\ UNCHANGED <<notifiers, packages_dict, bundle_idx, ck_cmds, plan, cache, notified>>
    /\ UNCHANGED notCheck

\* checker.py:75-78, 362-416  self._update_cache(): its result only decides what
\* is logged
CkRefresh ==
    /\ ck_pc = "refresh"
    /\ IF UpdateCacheRaises(FALSE)
       THEN RaiseInCheck /\ UNCHANGED ck_cmds
       ELSE /\ \E code \in ExitCodes : ck_pc' = "list"
            /\ ck_cmds' = Append(ck_cmds, UpdateCacheCmd(FALSE))
            /\ UNCHANGED <<cache, notified>>
    /\ UNCHANGED <<notifiers, ck_kind, packages_dict, bundle_idx, plan, cacheBefore, checks>>
    /\ UNCHANGED notCheck

\* checker.py:81-149  the listing: the command options, the command, the parse
CkList ==
    /\ ck_pc = "list"
    /\ IF AptCacheOptionsRaises
       THEN RaiseInCheck /\ UNCHANGED <<ck_cmds, packages_dict, plan>>
       ELSE /\ \E out \in ListOutcomes :
                 /\ Replays(Len(ck_cmds) + 1, "list", out)
                 /\ IF out[2] /= 0
                    THEN ck_pc' = "built" /\ plan' = <<>> /\ UNCHANGED packages_dict
                    ELSE /\ ck_pc' = "curated"
                         /\ packages_dict' = AddLines(<<>>, out[1])
                         /\ UNCHANGED plan
                 /\ ck_cmds' = Append(ck_cmds, Cmd("list", FALSE, FALSE, <<>>, out))
            /\ UNCHANGED <<cache, notified>>
    /\ UNCHANGED <<notifiers, ck_kind, bundle_idx, cacheBefore, checks>>
    /\ UNCHANGED notCheck

\* checker.py:152-166  one turn of the loop over the curated bundle
CkCurated ==
    /\ ck_pc = "curated"
    /\ policy_allow_new_packages
    /\ bundle_idx <= Len(bundle_default)
    /\ LET name == bundle_default[bundle_idx]
       IN  IF InDict(packages_dict, name)
           THEN UNCHANGED <<ck_pc, packages_dict, ck_cmds, cache, notified>>
           ELSE \E q \in QueryOutcomes :
                  LET query == Cmd("query", FALSE, FALSE, <<name>>, q)
                  IN  /\ Replays(Len(ck_cmds) + 1, "query", q)
                      /\ IF InstalledVersionOf(q[1], q[2]) /= NoneV
                         THEN /\ ck_cmds' = Append(ck_cmds, query)
                              /\ UNCHANGED <<ck_pc, packages_dict, cache, notified>>
                         ELSE IF AptCacheOptionsRaises
                         THEN /\ RaiseInCheck
                              /\ ck_cmds' = Append(ck_cmds, query)
                              /\ UNCHANGED packages_dict
                         ELSE \E pol \in PolicyOutcomes :
                             LET cand == CandidateOf(pol[1], pol[2])
                             IN  /\ Replays(Len(ck_cmds) + 2, "policy", pol)
                                 /\ ck_cmds' = ck_cmds \o
                                        <<query, Cmd("policy", FALSE, FALSE, <<name>>, pol)>>
                                 /\ packages_dict' =
                                        IF Truthy(cand)
                                        THEN Append(packages_dict,
                                                    NewPackage(name, NoneV, cand, 0))
                                        ELSE packages_dict
                                 /\ UNCHANGED <<ck_pc, cache, notified>>
    /\ bundle_idx' = bundle_idx + 1
    /\ UNCHANGED <<notifiers, ck_kind, plan, cacheBefore, checks>>
    /\ UNCHANGED notCheck

\* checker.py:152-153  no curated name is left, or new packages are not allowed
CkCuratedEnd ==
    /\ ck_pc = "curated"
    /\ ~policy_allow_new_packages \/ bundle_idx > Len(bundle_default)
    /\ ck_pc' = "sizes"
    /\ UNCHANGED <<notifiers, ck_kind, packages_dict, bundle_idx, ck_cmds, plan, cache,
                   cacheBefore, notified, checks>>
    /\ UNCHANGED notCheck

\* checker.py:168-177, 418-462  the sort and the batched size query, whose every
\* failure (the options' exception included) leaves the sizes at 0
CkSizes ==
    /\ ck_pc = "sizes"
    /\ LET packages == SortedPackages(packages_dict)
       IN  IF packages = <<>>
           THEN plan' = <<>> /\ UNCHANGED ck_cmds
           ELSE IF AptCacheOptionsRaises
           THEN plan' = packages /\ UNCHANGED ck_cmds
           ELSE \E show \in ShowOutcomes :
                  /\ Replays(Len(ck_cmds) + 1, "show", show)
                  /\ plan' = WithSizes(packages, PackageSizes(show[1], show[2]))
                  /\ ck_cmds' = Append(ck_cmds,
                         Cmd("show", FALSE, FALSE, NamesOf(packages), show))
    /\ ck_pc' = "built"
    /\ UNCHANGED <<notifiers, ck_kind, packages_dict, bundle_idx, cache, cacheBefore,
                   notified, checks>>
    /\ UNCHANGED notCheck

\* checker.py:95, 177  check_updates() returns to a caller other than check()
CkReturnPlan ==
    /\ ck_pc = "built"
    /\ ck_kind = "check_updates"
    /\ ck_pc' = "returned"
    /\ UNCHANGED <<notifiers, ck_kind, packages_dict, bundle_idx, ck_cmds, plan, cache,
                   cacheBefore, notified, checks>>
    /\ UNCHANGED notCheck

\* checker.py:54-60, 464-477  check() builds the UpdateResult and saves it
CkSave ==
    /\ ck_pc = "built"
    /\ ck_kind = "check"
    /\ \E outcome \in SaveOutcomes :
         /\ cache' = SavedCache(outcome, UpdateResult(plan, checks))
         /\ ck_pc' = IF CacheErrorEscapes(outcome /= "written") THEN "raised" ELSE "notify"
    /\ UNCHANGED <<notifiers, ck_kind, packages_dict, bundle_idx, ck_cmds, plan,
                   cacheBefore, notified, checks>>
    /\ UNCHANGED notCheck

\* a notifier's exception leaves _safe_notify
NotifierErrorEscapesWhenRaises(n) == n = "raises"

\* checker.py:500-510  _safe_notify wraps notifier.notify(result) in try / except
\* Exception and only logs: whether the exception of notifier n leaves it
NotifierErrorEscapes(n) == FALSE

\* checker.py:498-510  _safe_notify on the next notifier: whether notify() returns
\* or raises, the loop goes on
CkNotify ==
    /\ ck_pc = "notify"
    /\ Len(notified) < Len(notifiers)
    /\ notifiers[Len(notified) + 1] \in {"ok", "raises"}
    /\ notified' = Append(notified, Len(notified) + 1)
    /\ ck_pc' = IF NotifierErrorEscapes(notifiers[Len(notified) + 1]) THEN "raised" ELSE ck_pc
    /\ UNCHANGED <<notifiers, ck_kind, packages_dict, bundle_idx, ck_cmds, plan,
                   cache, cacheBefore, checks>>
    /\ UNCHANGED notCheck

\* checker.py:61-63  every notifier has been called; check() returns the result
CkReturn ==
    /\ ck_pc = "notify"
    /\ Len(notified) = Len(notifiers)
    /\ ck_pc' = "returned"
    /\ UNCHANGED <<notifiers, ck_kind, packages_dict, bundle_idx, ck_cmds, plan, cache,
                   cacheBefore, notified, checks>>
    /\ UNCHANGED notCheck

\* checker.py:306-308, 479-491  the caller check() returned to asks
\* get_status(), which reads last_check.json
CkGetStatus ==
    /\ ck_pc = "returned"
    /\ ck_kind = "check"
    /\ load_pc = "idle"
    /\ IF CacheErrorEscapes(cache /= <<>> /\ LoadCachedResult(cache) = <<>>)
       THEN load_pc' = "raised" /\ loaded' = <<>>
       ELSE load_pc' = "returned" /\ loaded' = LoadCachedResult(cache)
    /\ UNCHANGED <<val_pc, val_in, val_out, save_pc, save_arg, run_pc, run_in, run_out,
                   first_cmds, first_plan>>
    /\ UNCHANGED <<applyVars, cfgVars, checkVars, daemonVars, aptVars>>

\* the caller takes the returned value or the exception; the call is over
CkDone ==
    /\ ck_pc \in {"returned", "raised"}
    /\ ck_pc' = "idle"
    /\ packages_dict' = <<>>
    /\ bundle_idx' = 1
    /\ ck_cmds' = <<>>
    /\ plan' = <<>>
    /\ notified' = <<>>
    /\ UNCHANGED <<notifiers, ck_kind, cache, cacheBefore, checks>>
    /\ UNCHANGED notCheck

NextCheck ==
    \/ CkCall
    \/ CkRefresh
    \/ CkList
    \/ CkCurated
    \/ CkCuratedEnd
    \/ CkSizes
    \/ CkReturnPlan
    \/ CkSave
    \/ CkNotify
    \/ CkReturn
    \/ CkGetStatus
    \/ CkDone

SpecCheck == InitCheck /\ [][NextCheck]_vars

----------------------------------------------------------------------------
(***************************************************************************)
(* Properties of the planning path (checked under SpecCheck).              *)
(***************************************************************************)

\* C8: the planning path never surfaces an exception: whatever the external
\* commands of the refresh, the listing, the version queries and the size query
\* come back with, a call of check_updates() or check() ends by returning.
C8_PlanningNeverRaises == ck_pc /= "raised"

\* a call that ended by raising before it ran any command: the configuration
\* names an apt_source_file
C8_RaisedInIsolatedMode ==
    /\ ck_pc = "raised"
    /\ apt_source_file /= NoneV
    /\ ck_cmds = <<>>

\* C9: when check_updates() raises inside check(), check() ends by raising too,
\* having neither written the result cache nor called a notifier: the cache
\* file is what it was when the call began.
C9_RaiseLeavesCacheAndNotifiers ==
    (ck_kind = "check" /\ ck_pc = "raised") => (cache = cacheBefore /\ notified = <<>>)

\* check() has raised with a cached result on disk and notifiers registered
C9_Witness ==
    /\ ck_kind = "check"
    /\ ck_pc = "raised"
    /\ cacheBefore = <<Dump(PriorResult)>>
    /\ cache = <<Dump(PriorResult)>>
    /\ notifiers /= <<>>

----------------------------------------------------------------------------
(***************************************************************************)
(* SpecDaemon: one UpdateDaemon on its event loop.  Coroutines run from    *)
(* one await to the next without interleaving; check() and fetch() run in  *)
(* worker threads (asyncio.to_thread), which a cancelled await does not    *)
(* stop.                                                                   *)
(***************************************************************************)

InitDaemon ==
    /\ ApplyIdle
    /\ apt_source_file = NoneV
    /\ policy_allow_new_packages = TRUE
    /\ bundle_default = <<>>
    /\ notifiers = <<"ok", "ok">>
    /\ cache = <<>>
    /\ CheckIdle
    /\ DaemonIdle
    /\ AptIdle
    /\ CallIdle

\* check() threads that have not finished
ChecksInProgress == orphans + (IF awaited = "check" THEN 1 ELSE 0)

\* mutant: the coroutine goes on without waiting for the thread
FutureDoneEarly(a) == TRUE

\* daemon.py:59-60, 78-79, 87-88  `await asyncio.to_thread(...)` resumes once the
\* thread has returned or raised
FutureDone(a) == a \in {"returned", "raised"}

\* a thread whose future is no longer awaited keeps running: 1 if it runs
\* check()
Detached(a) == IF a = "check" THEN 1 ELSE 0

\* daemon.py:17-23  _get_directory_mtime: st_mtime, or 0.0 when the directory is
\* missing or cannot be read
DirectoryMtimes == {dir_mtime, 0}

\* daemon.py:115-118  _has_apt_cache_changed, given what the stat returned
HasAptCacheChanged(current_mtime) == current_mtime > last_apt_cache_mtime

\* daemon.py:74-82  _check_loop from `while self.running` to its next await
EnterLoop ==
    IF ~running
    THEN loop_pc' = "done" /\ awaited' = "none" /\ UNCHANGED mtime_at_sleep
    ELSE \E m \in DirectoryMtimes :
           IF HasAptCacheChanged(m)
           THEN loop_pc' = "chg_check" /\ awaited' = "check" /\ UNCHANGED mtime_at_sleep
           ELSE loop_pc' = "sleep" /\ awaited' = "none" /\ mtime_at_sleep' = dir_mtime

\* daemon.py:41-59  start() up to its first await: the stored mtime, running,
\* the signal handlers, the initial check handed to a thread
DStart ==
    /\ start_pc = "init"
    /\ \E m \in DirectoryMtimes : last_apt_cache_mtime' = m
    /\ running' = TRUE
    /\ awaited' = "check"
    /\ start_pc' = "initial_check"
    /\ UNCHANGED <<loop_pc, orphans, dir_mtime, mtime_at_sleep>>
    /\ UNCHANGED left_mtime
    /\ UNCHANGED notDaemon

\* the awaited thread ends: check() or fetch() returns or raises; a check has
\* run `apt-get update`, which may have rewritten the lists directory
ThreadFinish ==
    /\ awaited \in {"check", "fetch"}
    /\ \E outcome \in {"returned", "raised"} : awaited' = outcome
    /\ \/ UNCHANGED dir_mtime
       \/ awaited = "check" /\ dir_mtime < MaxMtime /\ dir_mtime' = dir_mtime + 1
    /\ left_mtime' = IF awaited = "check" THEN dir_mtime' ELSE left_mtime
    /\ UNCHANGED <<start_pc, loop_pc, running, orphans, last_apt_cache_mtime, mtime_at_sleep>>
    /\ UNCHANGED notDaemon

\* a check() thread whose await was cancelled ends
OrphanFinish ==
    /\ orphans > 0
    /\ orphans' = orphans - 1
    /\ \/ UNCHANGED dir_mtime
       \/ dir_mtime < MaxMtime /\ dir_mtime' = dir_mtime + 1
    /\ UNCHANGED <<start_pc, loop_pc, running, awaited, last_apt_cache_mtime, mtime_at_sleep>>
    /\ UNCHANGED left_mtime
    /\ UNCHANGED notDaemon

\* something else on the host (apt, the apply engine) rewrites the lists directory
AptListsTouched ==
    /\ dir_mtime < MaxMtime
    /\ dir_mtime' = dir_mtime + 1
    /\ UNCHANGED <<start_pc, loop_pc, running, awaited, orphans, last_apt_cache_mtime, mtime_at_sleep>>
    /\ UNCHANGED left_mtime
    /\ UNCHANGED notDaemon

\* daemon.py:59-60, 64-71  the initial check is over: its exception leaves start(),
\* otherwise the news fetch is handed to a thread
DInitialCheckDone ==
    /\ start_pc = "initial_check"
    /\ FutureDone(awaited)
    /\ IF awaited = "raised"
       THEN start_pc' = "done" /\ awaited' = "none" /\ UNCHANGED orphans
       ELSE /\ start_pc' = "initial_fetch"
            /\ awaited' = "fetch"
            /\ orphans' = orphans + Detached(awaited)
    /\ UNCHANGED <<loop_pc, running, last_apt_cache_mtime, dir_mtime, mtime_at_sleep>>
    /\ UNCHANGED left_mtime
    /\ UNCHANGED notDaemon

\* daemon.py:60-62  the initial fetch is over: check_task is created and awaited
DInitialFetchDone ==
    /\ start_pc = "initial_fetch"
    /\ FutureDone(awaited)
    /\ IF awaited = "raised"
       THEN start_pc' = "done" /\ UNCHANGED loop_pc
       ELSE start_pc' = "await_loop" /\ loop_pc' = "created"
    /\ awaited' = "none"
    /\ orphans' = orphans + Detached(awaited)
    /\ UNCHANGED <<running, last_apt_cache_mtime, dir_mtime, mtime_at_sleep>>
    /\ UNCHANGED left_mtime
    /\ UNCHANGED notDaemon

\* daemon.py:73-82  the event loop runs check_task for the first time
LoopBegin ==
    /\ loop_pc = "created"
    /\ EnterLoop
    /\ UNCHANGED <<start_pc, running, orphans, last_apt_cache_mtime, dir_mtime>>
    /\ UNCHANGED left_mtime
    /\ UNCHANGED notDaemon

\* daemon.py:78-79, 93-96  the change-triggered check is over: its exception is
\* logged and the loop goes round, otherwise the news fetch follows
LoopChgCheckDone ==
    /\ loop_pc = "chg_check"
    /\ FutureDone(awaited)
    /\ IF awaited = "raised"
       THEN EnterLoop
       ELSE loop_pc' = "chg_fetch" /\ awaited' = "fetch" /\ UNCHANGED mtime_at_sleep
    /\ orphans' = orphans + Detached(awaited)
    /\ UNCHANGED <<start_pc, running, last_apt_cache_mtime, dir_mtime>>
    /\ UNCHANGED left_mtime
    /\ UNCHANGED notDaemon

\* daemon.py:79-82, 93-96  the fetch after a change-triggered check is over: the
\* stored mtime is updated and the loop sleeps
LoopChgFetchDone ==
    /\ loop_pc = "chg_fetch"
    /\ FutureDone(awaited)
    /\ IF awaited = "raised"
       THEN EnterLoop /\ UNCHANGED last_apt_cache_mtime
       ELSE /\ \E m \in DirectoryMtimes : last_apt_cache_mtime' = m
            /\ loop_pc' = "sleep"
            /\ awaited' = "none"
            /\ mtime_at_sleep' = dir_mtime
    /\ orphans' = orphans + Detached(awaited)
    /\ UNCHANGED <<start_pc, running, dir_mtime>>
    /\ UNCHANGED left_mtime
    /\ UNCHANGED notDaemon

\* daemon.py:82-87  the sleep is over: the periodic check is handed to a thread
LoopWake ==
    /\ loop_pc = "sleep"
    /\ IF ~running
       THEN loop_pc' = "done" /\ UNCHANGED awaited
       ELSE loop_pc' = "per_check" /\ awaited' = "check"
    /\ UNCHANGED <<start_pc, running, orphans, last_apt_cache_mtime, dir_mtime, mtime_at_sleep>>
    /\ UNCHANGED left_mtime
    /\ UNCHANGED notDaemon

\* daemon.py:87-88, 93-96  the periodic check is over
LoopPerCheckDone ==
    /\ loop_pc = "per_check"
    /\ FutureDone(awaited)
    /\ IF awaited = "raised"
       THEN EnterLoop
       ELSE loop_pc' = "per_fetch" /\ awaited' = "fetch" /\ UNCHANGED mtime_at_sleep
    /\ orphans' = orphans + Detached(awaited)
    /\ UNCHANGED <<start_pc, running, last_apt_cache_mtime, dir_mtime>>
    /\ UNCHANGED left_mtime
    /\ UNCHANGED notDaemon

\* daemon.py:88, 93-96, 74  the periodic fetch is over: the loop goes round
LoopPerFetchDone ==
    /\ loop_pc = "per_fetch"
    /\ FutureDone(awaited)
    /\ EnterLoop
    /\ orphans' = orphans + Detached(awaited)
    /\ UNCHANGED <<start_pc, running, last_apt_cache_mtime, dir_mtime>>
    /\ UNCHANGED left_mtime
    /\ UNCHANGED notDaemon

\* daemon.py:52-56, 98-109  SIGTERM or SIGINT: the handler's task runs stop(),
\* which clears running and cancels check_task unless it is absent or done;
\* the cancelled loop leaves through `except CancelledError: break`
Stop ==
    /\ start_pc \notin {"init", "done"}
    /\ running' = FALSE
    /\ IF loop_pc \notin {"none", "done"}
       THEN /\ loop_pc' = "done"
            /\ awaited' = "none"
            /\ orphans' = orphans + Detached(awaited)
       ELSE UNCHANGED <<loop_pc, awaited, orphans>>
    /\ UNCHANGED <<start_pc, last_apt_cache_mtime, dir_mtime, mtime_at_sleep>>
    /\ UNCHANGED left_mtime
    /\ UNCHANGED notDaemon

\* daemon.py:62-71  check_task is done: start() leaves through cleanup()
DLoopDone ==
    /\ start_pc = "await_loop"
    /\ loop_pc = "done"
    /\ start_pc' = "done"
    /\ UNCHANGED <<loop_pc, running, awaited, orphans, last_apt_cache_mtime, dir_mtime, mtime_at_sleep>>
    /\ UNCHANGED left_mtime
    /\ UNCHANGED notDaemon

NextDaemon ==
    \/ DStart
    \/ ThreadFinish
    \/ OrphanFinish
    \/ AptListsTouched
    \/ DInitialCheckDone
    \/ DInitialFetchDone
    \/ LoopBegin
    \/ LoopChgCheckDone
    \/ LoopChgFetchDone
    \/ LoopWake
    \/ LoopPerCheckDone
    \/ LoopPerFetchDone
    \/ Stop
    \/ DLoopDone

SpecDaemon == InitDaemon /\ [][NextDaemon]_vars

----------------------------------------------------------------------------
(***************************************************************************)
(* Properties of the daemon (checked under SpecDaemon).                    *)
(***************************************************************************)

\* C10: a daemon never has two checks in progress: counting the initial, the
\* change-triggered and the periodic check and the checks whose await stop()
\* cancelled, at most one check() is running at any time.
C10_OneCheckAtATime == ChecksInProgress <= 1

\* stop() has cancelled the loop while its check was running: the check's
\* thread runs on and the loop is done
C10_Witness ==
    /\ orphans = 1
    /\ loop_pc = "done"
    /\ ~running

\* stop() has run: running was set by start() and cleared again
StopHandled == start_pc /= "init" /\ ~running

\* C11: a SIGTERM or SIGINT interrupts the sleep or the check in flight: once
\* stop() has handled it the daemon awaits no running check (neither the one
\* that was in flight nor a new one), and the daemon never holds the apply
\* lock.
C11_SignalInterruptsCheck ==
    /\ StopHandled => awaited /= "check"
    /\ lockHolder = 0

\* the signal came during the initial check: stop() found no check_task to
\* cancel and start() still awaits the check's thread
C11_InitialCheckNotInterrupted ==
    /\ StopHandled
    /\ start_pc = "initial_check"
    /\ awaited = "check"
    /\ loop_pc = "none"

\* daemon.py:82  asyncio.sleep(check_interval) runs its full interval: the loop
\* goes on to the periodic check
SleepElapses == loop_pc = "sleep" /\ loop_pc' = "per_check"

\* the lists directory's modification time has advanced past the stored value
\* since the loop went to sleep
AdvancedWhileSleeping ==
    /\ loop_pc = "sleep"
    /\ mtime_at_sleep <= last_apt_cache_mtime
    /\ dir_mtime > last_apt_cache_mtime

\* C12: when the lists directory's modification time advances past the stored
\* value while the daemon sleeps between cycles, a re-check starts before the
\* interval is over: such a sleep never runs to its end.
C12_ChangeCutsSleepShort == [][AdvancedWhileSleeping => ~SleepElapses]_vars

\* the daemon is asleep, not stopped, and the directory's modification time
\* has advanced past the stored one meanwhile
C12_ChangedWhileSleeping == AdvancedWhileSleeping /\ running

----------------------------------------------------------------------------
(***************************************************************************)
(* Pure helpers of AptInterface (apt.py), the asynchronous planner with    *)
(* rebuild detection.                                                      *)
(***************************************************************************)

\* Python's `sub in s` on two sequences of characters
ContainsChars(s, sub) ==
    \E i \in 0..(Len(s) - Len(sub)) : SubSeq(s, i + 1, i + Len(sub)) = sub

\* Python's str.lower() on a sequence of the model's characters
LowerChars(s) == [i \in 1..Len(s) |-> IF s[i] = "P" THEN "p" ELSE s[i]]

\* apt.py:412  any(x in name.lower() for x in ["distiller", "pamir", "vibe"])
LikelyPamir(name) ==
    \E x \in {"distiller", "pamir", "vibe"} :
        ContainsChars(LowerChars(Spell[name]), Spell[x])

\* lines of `apt list --upgradable` as AptInterface may read them
AptPyLines ==
    { AptLine(<<<<"vibe", "stable">>, <<"2.0">>, <<"arm64">>>>, <<"1.0">>),
      AptLine(<<<<"vibe", "stable">>, <<"3.0">>, <<"arm64">>>>, <<"1.5">>),
      AptLine(<<<<"vibes", "unstable">>, <<"2.0">>, <<"arm64">>>>, <<"1.0">>),
      AptLine(<<<<"zlib", "testing">>, <<"2.0">>, <<"arm64">>>>, <<"1.0">>) }

\* what `apt list --upgradable` can come back with through run_command
AptPyListOutcomes ==
    {<<lines, 0>> : lines \in SeqsUpTo(AptPyLines, MaxLines)} \cup {<<<<>>, 1>>}

\* apt.py:156-167  _get_package_size: the first "Size:" line of `apt-cache show
\* name=version`, or 0 on any failure
PackageSizeOutcomes == {0, 1024}

\* apt.py:95-147  the body of the loop over the lines: packages after one line
\* whose size query gave `size`
AptAddLine(packages, line, size) ==
    IF LineIgnored(line) THEN packages
    ELSE IF line.from = <<>> THEN packages
    ELSE IF Len(line.tokens) < 2 THEN packages
    ELSE LET name_dist == line.tokens[1]
             name == name_dist[1]
             dist == IF Len(name_dist) > 1 THEN name_dist[2] ELSE ""
         IN  IF dist /= "" /\ ~ContainsChars(Spell[dist], Spell[distribution]) THEN packages
             ELSE IF InDict(packages, name) THEN packages
             ELSE Append(packages, NewPackage(name, line.from[1], line.tokens[2][1], size))

\* apt.py:92-147  packages after every line; sizes[i] is what the size query of
\* line i gives
RECURSIVE AptAddLines(_, _, _)
AptAddLines(packages, lines, sizes) ==
    IF lines = <<>> THEN packages
    ELSE AptAddLines(AptAddLine(packages, Head(lines), Head(sizes)), Tail(lines), Tail(sizes))

\* what `apt-get -s upgrade` can come back with, as <<the names listed under
\* "The following packages will be upgraded:", code>>
SimulateOutcomes ==
    { <<<<>>, 1>>, <<<<>>, 0>>, <<<<"vibe">>, 0>>, <<<<"vibe", "vibes">>, 0>> }

\* what _get_package_info reads for a name, as <<installed version, candidate
\* version>> ("" where the command failed or printed nothing)
InfoOutcomes == { <<"", "">>, <<"1.0", "2.0">>, <<"1.0", "1.0">> }

\* apt.py:200-231  _get_package_info: <<the Package>> or <<>> for None
PackageInfo(name, info, size) ==
    IF info[1] /= "" /\ info[2] /= "" /\ info[1] /= info[2]
    THEN <<NewPackage(name, info[1], info[2], size)>>
    ELSE <<>>

\* apt.py:179-198  the packages of the simulated upgrade: one per listed name
\* whose info is not None
RECURSIVE SimulatedPackages(_, _, _)
SimulatedPackages(names, infos, size) ==
    IF names = <<>> THEN <<>>
    ELSE PackageInfo(Head(names), Head(infos), size) \o
         SimulatedPackages(Tail(names), Tail(infos), size)

\* One stanza of the repository's Packages file, as the parser's three
\* registers hold it at the stanza's end (None for a field the stanza lacks)
Stanza(name, version, md5) == [name |-> name, version |-> version, md5 |-> md5]

\* what fetch_repository_checksums can read: nothing (HTTP error, timeout, bad
\* gzip), or the stanzas of the file
RepoIndexes ==
    { <<>>,
      <<Stanza("vibe", "1.0", "m2")>>,
      <<Stanza("vibe", "1.0", "m1"), Stanza("vibes", "1.0", NoneV)>>,
      <<Stanza("vibe", "1.0", "m1"), Stanza("vibe", "1.0", "m2")>> }

\* apt.py:317-320, 326-329  only a stanza with all three fields is recorded
RecordedStanzas(stanzas) ==
    SelectSeq(stanzas, LAMBDA st : st.name /= NoneV /\ st.version /= NoneV /\ st.md5 /= NoneV)

\* apt.py:357-361  repo_checksums[name][version], or None when the name or the
\* version is not in it: the last recorded stanza for the pair decides
RepoMd5(stanzas, name, version) ==
    LET hits == SelectSeq(stanzas, LAMBDA st : st.name = name /\ st.version = version)
    IN  IF hits = <<>> THEN NoneV ELSE hits[Len(hits)].md5

\* what `dpkg-query -W -f=${Package}\t${Version}\n` can come back with, as
\* <<the <<name, version>> of each line, code>>
InstalledOutcomes ==
    { <<<<>>, 1>>,
      <<<< <<"vibe", "1.0">> >>, 0>>,
      <<<< <<"zlib", "1.0">>, <<"vibe", "1.0">>, <<"vibes", "1.0">> >>, 0>>,
      <<<< <<"vibe", "1.0">>, <<"vibe", "1.0">> >>, 0>> }

\* apt.py:406-413  the installed packages kept: those whose name passes the
\* filter
InstalledPamir(lines, code) ==
    IF code /= 0 THEN <<>> ELSE SelectSeq(lines, LAMBDA l : LikelyPamir(l[1]))

\* apt.py:239-276  what get_installed_checksum can return: None, or a checksum
InstalledChecksums == {NoneV, "m1", "m2"}

\* apt.py:354  any(p.name == installed_pkg["name"] for p in packages): the
\* package already has an action in the list
RebuildSkipped(packages, name) == InDict(packages, name)

----------------------------------------------------------------------------
(***************************************************************************)
(* AptInterface.check_updates (apt.py:336-396).  The coroutine is followed *)
(* from one await to the next; one call is explored per behaviour, counted *)
(* in `checks` together with the calls of UpdateChecker.                   *)
(***************************************************************************)

\* a caller awaits AptInterface.check_updates()
AptCall ==
    /\ apt_pc = "idle"
    /\ ck_pc = "idle"
    /\ checks = 0
    /\ apt_pc' = "update"
    /\ checks' = checks + 1
    /\ UNCHANGED <<apt_packages, apt_upgrades, repo_checksums, all_installed,
                   installed_idx, compared>>
    /\ UNCHANGED <<notifiers, ck_pc, ck_kind, packages_dict, bundle_idx, ck_cmds, plan,
                   cache, cacheBefore, notified>>
    /\ UNCHANGED <<applyVars, cfgVars, daemonVars, callVars>>

\* apt.py:52-81, 339-341  update_cache(): the repository-only update, then the
\* full one when it fails; the result only decides what is logged
AptUpdate ==
    /\ apt_pc = "update"
    /\ \E code \in {0, 100}, fallback \in {0, 100} :
         apt_pc' = "list"
    /\ UNCHANGED <<apt_packages, apt_upgrades, repo_checksums, all_installed,
                   installed_idx, compared>>
    /\ UNCHANGED notApt

\* apt.py:86-147  get_upgradable_packages() down to the end of the loop over
\* the lines; a failed listing returns [] at once
AptList ==
    /\ apt_pc = "list"
    /\ \E out \in AptPyListOutcomes :
         \E sizes \in [1..Len(out[1]) -> PackageSizeOutcomes] :
           LET packages == IF out[2] /= 0 THEN <<>> ELSE AptAddLines(<<>>, out[1], sizes)
           IN  /\ apt_packages' = packages
               /\ apt_upgrades' = packages
               /\ apt_pc' = IF out[2] = 0 /\ packages = <<>> THEN "simulate" ELSE "fetch"
    /\ UNCHANGED <<repo_checksums, all_installed, installed_idx, compared>>
    /\ UNCHANGED notApt

\* apt.py:149-154, 169-198  nothing was found: the packages of `apt-get -s
\* upgrade` instead
AptSimulate ==
    /\ apt_pc = "simulate"
    /\ \E sim \in SimulateOutcomes, size \in PackageSizeOutcomes :
         \E infos \in [1..Len(sim[1]) -> InfoOutcomes] :
           LET packages == IF sim[2] /= 0 THEN <<>>
                           ELSE SimulatedPackages(sim[1], infos, size)
           IN  /\ apt_packages' = packages
               /\ apt_upgrades' = packages
    /\ apt_pc' = "fetch"
    /\ UNCHANGED <<repo_checksums, all_installed, installed_idx, compared>>
    /\ UNCHANGED notApt

\* apt.py:278-334, 347  fetch_repository_checksums()
AptFetchChecksums ==
    /\ apt_pc = "fetch"
    /\ \E index \in RepoIndexes : repo_checksums' = RecordedStanzas(index)
    /\ apt_pc' = "installed"
    /\ UNCHANGED <<apt_packages, apt_upgrades, all_installed, installed_idx, compared>>
    /\ UNCHANGED notApt

\* apt.py:350, 398-419  _get_all_installed_pamir_packages()
AptInstalled ==
    /\ apt_pc = "installed"
    /\ \E o \in InstalledOutcomes : all_installed' = InstalledPamir(o[1], o[2])
    /\ installed_idx' = 1
    /\ apt_pc' = "rebuild"
    /\ UNCHANGED <<apt_packages, apt_upgrades, repo_checksums, compared>>
    /\ UNCHANGED notApt

\* apt.py:352-387  one turn of the loop over the installed packages
AptRebuild ==
    /\ apt_pc = "rebuild"
    /\ installed_idx <= Len(all_installed)
    /\ LET name == all_installed[installed_idx][1]
           installed_version == all_installed[installed_idx][2]
           repo_md5 == RepoMd5(repo_checksums, name, installed_version)
       IN  IF RebuildSkipped(apt_packages, name) \/ repo_md5 = NoneV
           THEN UNCHANGED <<apt_packages, compared>>
           ELSE \E installed_md5 \in InstalledChecksums, size \in PackageSizeOutcomes :
                  /\ compared' = Append(compared,
                                        [name |-> name, version |-> installed_version,
                                         installed_md5 |-> installed_md5,
                                         repo_md5 |-> repo_md5])
                  /\ apt_packages' =
                         IF Truthy(installed_md5) /\ Truthy(repo_md5) /\ installed_md5 /= repo_md5
                         THEN Append(apt_packages,
                                     NewPackage(name, installed_version, installed_version, size))
                         ELSE apt_packages
    /\ installed_idx' = installed_idx + 1
    /\ UNCHANGED <<apt_pc, apt_upgrades, repo_checksums, all_installed>>
    /\ UNCHANGED notApt

\* apt.py:352  no installed package is left
AptRebuildEnd ==
    /\ apt_pc = "rebuild"
    /\ installed_idx > Len(all_installed)
    /\ apt_pc' = "checksums"
    /\ UNCHANGED <<apt_packages, apt_upgrades, repo_checksums, all_installed,
                   installed_idx, compared>>
    /\ UNCHANGED notApt

\* apt.py:390-396  the loop that adds checksums to the version upgrades reads
\* pkg.update_type, a field models.py:9-13 does not declare: AttributeError on
\* the first package.  With no package the sorted (empty) list is returned.
AptChecksums ==
    /\ apt_pc = "checksums"
    /\ apt_pc' = IF apt_packages /= <<>> THEN "raised" ELSE "returned"
    /\ UNCHANGED <<apt_packages, apt_upgrades, repo_checksums, all_installed,
                   installed_idx, compared>>
    /\ UNCHANGED notApt

NextApt ==
    \/ AptCall
    \/ AptUpdate
    \/ AptList
    \/ AptSimulate
    \/ AptFetchChecksums
    \/ AptInstalled
    \/ AptRebuild
    \/ AptRebuildEnd
    \/ AptChecksums

SpecApt == InitCheck /\ [][NextApt]_vars

\* either planner is called, once
NextPlan == NextCheck \/ NextApt

SpecPlan == InitCheck /\ [][NextPlan]_vars

----------------------------------------------------------------------------
(***************************************************************************)
(* Claims about the plan                                                   *)
(***************************************************************************)

\* no two entries of the list carry the same name
UniqueNames(packages) ==
    \A i, j \in 1..Len(packages) : packages[i].name = packages[j].name => i = j

\* the stdout lines the listing of this call came back with
ListedLines ==
    LET lists == SelectSeq(ck_cmds, LAMBDA c : c.kind = "list")
    IN  IF lists = <<>> \/ lists[1].out[2] /= 0 THEN <<>> ELSE lists[1].out[1]

\* the parse accepts the line on its own (format, name, distribution)
Accepted(line) == AddLine(<<>>, line) /= <<>>

\* C13: every plan returned has at most one action per package name; a name
\* with an accepted upgrade line gets the version-upgrade action and never a
\* curated install beside it or instead of it; a rebuild is never appended for
\* a name that already has a version-upgrade action.
C13_OneActionPerName ==
    /\ ck_pc = "returned" =>
         /\ UniqueNames(plan)
         /\ \A k \in 1..Len(ListedLines) :
              Accepted(ListedLines[k]) =>
                \E i \in 1..Len(plan) :
                  /\ plan[i].name = AddLine(<<>>, ListedLines[k])[1].name
                  /\ plan[i].current_version /= NoneV
    /\ apt_pc = "returned" => UniqueNames(apt_packages)
    /\ \A i \in (Len(apt_upgrades) + 1)..Len(apt_packages) :
         /\ ~InDict(apt_upgrades, apt_packages[i].name)
         /\ \A j \in 1..Len(apt_packages) :
              apt_packages[j].name = apt_packages[i].name => i = j

\* a plan is returned that upgrades pkga, a name of the curated bundle, and
\* installs pkgc from the bundle
C13_Witness ==
    /\ ck_pc = "returned"
    /\ \E k \in 1..Len(bundle_default) : bundle_default[k] = "pkga"
    /\ \E i, j \in 1..Len(plan) :
         /\ plan[i].name = "pkga" /\ plan[i].current_version /= NoneV
         /\ plan[j].name = "pkgc" /\ plan[j].current_version = NoneV

\* a rebuild is appended to a list that holds a version-upgrade of another name
C13_RebuildBesideUpgrade ==
    /\ apt_upgrades /= <<>>
    /\ Len(apt_packages) > Len(apt_upgrades)

\* line k is the first accepted line of the listing for its name
FirstForName(k) ==
    /\ Accepted(ListedLines[k])
    /\ \A j \in 1..(k - 1) :
         Accepted(ListedLines[j]) =>
           AddLine(<<>>, ListedLines[j])[1].name /= AddLine(<<>>, ListedLines[k])[1].name

\* C14: when the listing has several accepted lines for one name, the plan
\* returned carries the installed and the new version of the first of them.
C14_FirstLineWins ==
    ck_pc = "returned" =>
      \A k \in 1..Len(ListedLines) :
        FirstForName(k) =>
          \E i \in 1..Len(plan) :
            /\ plan[i].name = AddLine(<<>>, ListedLines[k])[1].name
            /\ plan[i].current_version = ListedLines[k].from[1]
            /\ plan[i].new_version = ListedLines[k].tokens[2][1]

\* a plan is returned for a listing with two accepted lines for pkga that
\* differ in both versions
C14_Witness ==
    /\ ck_pc = "returned"
    /\ Len(ListedLines) = 2
    /\ Accepted(ListedLines[1]) /\ Accepted(ListedLines[2])
    /\ ListedLines[1].tokens[1][1] = "pkga" /\ ListedLines[2].tokens[1][1] = "pkga"
    /\ ListedLines[1].tokens[2] /= ListedLines[2].tokens[2]
    /\ ListedLines[1].from /= ListedLines[2].from
    /\ Len(plan) >= 1

\* the line has the listing's format and a valid package name
WellFormed(line) ==
    /\ ~LineIgnored(line)
    /\ line.from /= <<>>
    /\ Len(line.tokens) >= 2
    /\ ValidatePackageName(line.tokens[1][1]) /= <<>>

\* the text after the "/" of the line's first token
SuffixOf(line) == IF Len(line.tokens[1]) > 1 THEN line.tokens[1][2] ELSE ""

\* C15: in normal mode (apt_source_file unset) every upgrade action of the plan
\* comes from a line whose "/distribution" suffix equals the target
\* distribution; in isolated mode (apt_source_file set) the planning call ends
\* with a plan that holds every well-formed line, whatever its suffix.
C15_DistributionFilter ==
    /\ (apt_source_file = NoneV /\ ck_pc = "returned") =>
         \A i \in 1..Len(plan) :
           plan[i].current_version /= NoneV =>
             \E k \in 1..Len(ListedLines) :
               /\ WellFormed(ListedLines[k])
               /\ ListedLines[k].tokens[1][1] = plan[i].name
               /\ SuffixOf(ListedLines[k]) = distribution
    /\ (apt_source_file /= NoneV /\ ck_pc \in {"returned", "raised"}) =>
         /\ ck_pc = "returned"
         /\ \A k \in 1..Len(ListedLines) :
              WellFormed(ListedLines[k]) => InDict(plan, ListedLines[k].tokens[1][1])

\* check_updates(refresh=False) in isolated mode has raised before the listing
\* was run
C15_IsolatedListingRaises ==
    /\ apt_source_file /= NoneV
    /\ ck_kind = "check_updates"
    /\ ck_pc = "raised"
    /\ ck_cmds = <<>>

----------------------------------------------------------------------------
(***************************************************************************)
(* _validate_package_name (checker.py:29-34) called on its own             *)
(***************************************************************************)

\* the characters the arguments are made of: a lowercase letter, a digit, a
\* sign the pattern allows, an uppercase letter, a space and an underscore
NameChars == {"a", "0", "-", "A", " ", "_"}

Uppercase == {"A", "P"}

\* MaxPackageNameLen - 2 more characters, which take an argument of two
\* characters to the limit and one of three past it
LongTail == [i \in 1..(MaxPackageNameLen - 2) |-> "a"]

\* the arguments: every string of at most MaxNameLen characters, as it is and
\* with the long tail
NameInputs ==
    {s \o tail : s \in SeqsUpTo(NameChars, MaxNameLen), tail \in {<<>>, LongTail}}

InitValidate ==
    /\ ApplyIdle
    /\ apt_source_file = NoneV
    /\ policy_allow_new_packages = TRUE
    /\ bundle_default = <<>>
    /\ notifiers = <<>>
    /\ cache = <<>>
    /\ CheckIdle
    /\ DaemonIdle
    /\ AptIdle
    /\ val_pc = "idle"
    /\ val_in \in NameInputs
    /\ val_out = <<>>
    /\ load_pc = "idle"
    /\ loaded = <<>>
    /\ save_pc = "idle"
    /\ save_arg = <<>>
    /\ run_pc = "idle"
    /\ run_in = <<>>
    /\ run_out = <<>>
    /\ first_cmds = <<>>
    /\ first_plan = <<>>

\* checker.py:29-34  _validate_package_name(val_in) returns or raises
Validate ==
    /\ val_pc = "idle"
    /\ val_out' = ValidateChars(val_in)
    /\ val_pc' = IF val_out' = <<>> THEN "raised" ELSE "returned"
    /\ UNCHANGED <<val_in, load_pc, loaded, save_pc, save_arg, run_pc, run_in, run_out,
                   first_cmds, first_plan>>
    /\ UNCHANGED notCall

NextValidate == Validate

SpecValidate == InitValidate /\ [][NextValidate]_vars

\* the string has a character of the set
HasCharIn(s, set) == \E i \in 1..Len(s) : s[i] \in set

\* the string without its leading and trailing spaces, not computed by Strip
Trimmed(s) ==
    IF \A i \in 1..Len(s) : s[i] = " " THEN <<>>
    ELSE LET first == CHOOSE i \in 1..Len(s) :
                        s[i] /= " " /\ \A j \in 1..(i - 1) : s[j] = " "
             last == CHOOSE i \in 1..Len(s) :
                       s[i] /= " " /\ \A j \in (i + 1)..Len(s) : s[j] = " "
         IN  SubSeq(s, first, last)

\* the whole string matches [a-z0-9][a-z0-9+\-.]+
MatchesPattern(s) ==
    /\ Len(s) >= 2
    /\ s[1] \in LowerAlnum
    /\ \A i \in 2..Len(s) : s[i] \in LowerAlnum \cup {"+", "-", "."}

\* C16 as stated: the validator returns the name unchanged for every string
\* that matches the pattern, and raises for the empty string and for every
\* string that contains an uppercase letter, a space or an underscore.
C16_ValidatorAsStated ==
    val_pc /= "idle" =>
      /\ MatchesPattern(val_in) => (val_pc = "returned" /\ val_out = <<val_in>>)
      /\ (val_in = <<>> \/ HasCharIn(val_in, Uppercase \cup {" ", "_"})) => val_pc = "raised"

\* C16, amended: the validator looks at the name without its leading and
\* trailing spaces.  It returns that trimmed name when it matches the pattern
\* and has at most 255 characters (so a matching name of at most 255 characters
\* comes back unchanged), and raises when the trimmed name is empty, is longer
\* than 255 characters, or contains an uppercase letter, a space or an
\* underscore.
C16_ValidatorTrims ==
    val_pc /= "idle" =>
      LET t == Trimmed(val_in)
      IN  /\ (MatchesPattern(t) /\ Len(t) <= MaxPackageNameLen) =>
                (val_pc = "returned" /\ val_out = <<t>>)
          /\ (MatchesPattern(val_in) /\ Len(val_in) <= MaxPackageNameLen) =>
                val_out = <<val_in>>
          /\ (t = <<>> \/ Len(t) > MaxPackageNameLen
                \/ HasCharIn(t, Uppercase \cup {" ", "_"})) => val_pc = "raised"

\* a name with a leading space was accepted and came back without it
C16_Witness ==
    /\ val_pc = "returned"
    /\ val_in /= <<>> /\ val_in[1] = " "
    /\ val_out /= <<val_in>>

\* a matching name of 255 characters was accepted
C16_LongestAccepted ==
    /\ val_pc = "returned"
    /\ Len(val_in) = MaxPackageNameLen
    /\ val_out = <<val_in>>

\* the rebuild loop of the call is over
RebuildLoopOver == apt_pc \in {"checksums", "returned", "raised"}

\* the action carries the field with a value
Carries(pkg, field) == field \in DOMAIN pkg /\ Truthy(pkg[field])

\* the rebuild action the claim describes for a comparison
IsRebuildOf(pkg, c) ==
    /\ pkg.name = c.name
    /\ pkg.current_version = c.version
    /\ pkg.new_version = c.version
    /\ "update_type" \in DOMAIN pkg /\ pkg["update_type"] = "rebuild"

\* C17: for every installed package P at version V that has no version-upgrade
\* and whose version V the repository lists with checksum C2, the call emits
\* the action {name P, current V, new V, update_type rebuild} when P's installed
\* checksum C1 differs from C2 and no action for P when C1 = C2, every rebuild
\* action carries both checksums, present and unequal, and the call returns
\* the list.
C17_RebuildDetection ==
    RebuildLoopOver =>
      /\ \A k \in 1..Len(compared) :
           LET c == compared[k]
           IN  /\ (Truthy(c.installed_md5) /\ c.installed_md5 /= c.repo_md5) =>
                    \E i \in 1..Len(apt_packages) : IsRebuildOf(apt_packages[i], c)
               /\ c.installed_md5 = c.repo_md5 => ~InDict(apt_packages, c.name)
      /\ \A i \in (Len(apt_upgrades) + 1)..Len(apt_packages) :
           /\ Carries(apt_packages[i], "installed_checksum")
           /\ Carries(apt_packages[i], "repository_checksum")
           /\ apt_packages[i]["installed_checksum"] /= apt_packages[i]["repository_checksum"]
      /\ apt_pc /= "raised"

\* the rebuild loop appended an action for a package whose checksums differ,
\* and the call then raised
C17_RebuildThenRaise ==
    /\ apt_pc = "raised"
    /\ Len(apt_packages) > Len(apt_upgrades)
    /\ \E k \in 1..Len(compared) :
         /\ compared[k].installed_md5 = "m1"
         /\ compared[k].repo_md5 = "m2"

----------------------------------------------------------------------------
(***************************************************************************)
(* check_updates(refresh=False) called a second time, the package          *)
(* manager's state unchanged                                               *)
(***************************************************************************)

\* checker.py:69-82  the caller that got a plan from check_updates(refresh=
\* False) calls it again; every local of the first call is gone
CkCallAgain ==
    /\ ck_pc = "returned"
    /\ ck_kind = "check_updates"
    /\ first_plan = <<>>
    /\ ck_cmds /= <<>> /\ ck_cmds[1].kind = "list"
    /\ first_cmds' = ck_cmds
    /\ first_plan' = <<plan>>
    /\ ck_pc' = "list"
    /\ packages_dict' = <<>>
    /\ bundle_idx' = 1
    /\ ck_cmds' = <<>>
    /\ plan' = <<>>
    /\ checks' = checks + 1
    /\ cacheBefore' = cache
    /\ UNCHANGED <<notifiers, ck_kind, cache, notified>>
    /\ UNCHANGED <<val_pc, val_in, val_out, load_pc, loaded, save_pc, save_arg, run_pc,
                   run_in, run_out>>
    /\ UNCHANGED <<applyVars, cfgVars, daemonVars, aptVars>>

NextTwice == NextCheck \/ CkCallAgain

SpecTwice == InitCheck /\ [][NextTwice]_vars

\* every action with a current version stands before every first-time install,
\* and the names ascend within each of the two groups
PlanSorted(packages) ==
    \A i, j \in 1..Len(packages) :
      i < j =>
        LET a == packages[i]
            b == packages[j]
        IN  /\ a.current_version = NoneV => b.current_version = NoneV
            /\ ((a.current_version = NoneV) = (b.current_version = NoneV)) =>
                 CharsLess(Spell[a.name], Spell[b.name])

\* C18: the second of two check_updates(refresh=False) calls made with no
\* change of the package manager's state in between returns the list the first
\* returned, and every plan returned has the actions with a current version
\* first and the first-time installs last, each group in ascending name order.
C18_PlanDeterministicAndSorted ==
    ck_pc = "returned" =>
      /\ PlanSorted(plan)
      /\ first_plan /= <<>> => plan = first_plan[1]

\* the second call has returned a plan in which an upgrade stands before a
\* first-time install of a name that sorts before it
C18_Witness ==
    /\ ck_pc = "returned"
    /\ first_plan /= <<>>
    /\ \E i, j \in 1..Len(plan) :
         /\ i < j
         /\ plan[i].current_version /= NoneV
         /\ plan[j].current_version = NoneV
         /\ StrLess(plan[j].name, plan[i].name)

----------------------------------------------------------------------------
(***************************************************************************)
(* _save_result and _load_cached_result (checker.py:464-491) called on     *)
(* their own                                                               *)
(***************************************************************************)

\* the distributions a result can name (models.py:76)
Distributions == {"stable", "testing"}

\* the results handed to _save_result
Results ==
    { [packages |-> ps, checked_at |-> t, distribution |-> d] :
        ps \in SeqsUpTo(Package, MaxActions), t \in {1, 2}, d \in Distributions }

InitCache ==
    /\ ApplyIdle
    /\ apt_source_file = NoneV
    /\ policy_allow_new_packages = TRUE
    /\ bundle_default = <<>>
    /\ notifiers = <<>>
    /\ cache \in {<<>>, <<Dump(PriorResult)>>, <<Truncated>>, <<BadDate>>}
    /\ CheckIdle
    /\ DaemonIdle
    /\ AptIdle
    /\ val_pc = "idle"
    /\ val_in = <<>>
    /\ val_out = <<>>
    /\ load_pc = "idle"
    /\ loaded = <<>>
    /\ save_pc = "idle"
    /\ save_arg \in {<<r>> : r \in Results}
    /\ run_pc = "idle"
    /\ run_in = <<>>
    /\ run_out = <<>>
    /\ first_cmds = <<>>
    /\ first_plan = <<>>

\* checker.py:467-471  _save_result(save_arg) up to open(cache_file, "w"): the dump
\* or open() fails and the file is untouched, or open() leaves the file empty
SaveOpen ==
    /\ save_pc = "idle"
    /\ \E outcome \in {"opened", "open_failed"} :
         /\ cache' = IF outcome = "opened" THEN <<Truncated>>
                     ELSE SavedCache(outcome, save_arg[1])
         /\ save_pc' = IF CacheErrorEscapes(outcome /= "opened") THEN "raised" ELSE outcome
    /\ cacheBefore' = cache
    /\ UNCHANGED <<notifiers, ck_pc, ck_kind, packages_dict, bundle_idx, ck_cmds, plan,
                   notified, checks>>
    /\ UNCHANGED <<val_pc, val_in, val_out, load_pc, loaded, save_arg, run_pc, run_in,
                   run_out, first_cmds, first_plan>>
    /\ UNCHANGED <<applyVars, cfgVars, daemonVars, aptVars>>

\* checker.py:471-477  f.write(json_str) and the close of the file
SaveWrite ==
    /\ save_pc = "opened"
    /\ \E outcome \in SaveOutcomes \ {"open_failed"} :
         /\ cache' = SavedCache(outcome, save_arg[1])
         /\ save_pc' = IF CacheErrorEscapes(outcome /= "written") THEN "raised" ELSE outcome
    /\ UNCHANGED <<notifiers, ck_pc, ck_kind, packages_dict, bundle_idx, ck_cmds, plan,
                   cacheBefore, notified, checks>>
    /\ UNCHANGED <<val_pc, val_in, val_out, load_pc, loaded, save_arg, run_pc, run_in,
                   run_out, first_cmds, first_plan>>
    /\ UNCHANGED <<applyVars, cfgVars, daemonVars, aptVars>>

\* checker.py:479-491  _load_cached_result()
LoadCached ==
    /\ load_pc = "idle"
    /\ ck_pc = "idle"
    /\ IF CacheErrorEscapes(cache /= <<>> /\ LoadCachedResult(cache) = <<>>)
       THEN load_pc' = "raised" /\ loaded' = <<>>
       ELSE load_pc' = "returned" /\ loaded' = LoadCachedResult(cache)
    /\ UNCHANGED <<val_pc, val_in, val_out, save_pc, save_arg, run_pc, run_in, run_out,
                   first_cmds, first_plan>>
    /\ UNCHANGED <<applyVars, cfgVars, checkVars, daemonVars, aptVars>>

NextCache == SaveOpen \/ SaveWrite \/ LoadCached

SpecCache == InitCache /\ [][NextCache]_vars

\* C19: a load that follows a successful save, with no save in between,
\* returns a result with the packages (the same actions in the same order),
\* the checked_at and the distribution of the result that was saved.
C19_CacheRoundTrip ==
    [][(save_pc = "written" /\ load_pc = "idle" /\ load_pc' /= "idle") =>
          /\ load_pc' = "returned"
          /\ loaded' /= <<>>
          /\ loaded'[1].packages = save_arg[1].packages
          /\ loaded'[1].checked_at = save_arg[1].checked_at
          /\ loaded'[1].distribution = save_arg[1].distribution]_vars

\* a result with a first-time install (no current version) behind an upgrade,
\* named for testing, was saved and read back
C19_Witness ==
    /\ save_pc = "written"
    /\ load_pc = "returned"
    /\ loaded = save_arg
    /\ Len(loaded[1].packages) = 2
    /\ loaded[1].packages[1].current_version = "1.0"
    /\ loaded[1].packages[2].current_version = NoneV
    /\ loaded[1].distribution = "testing"
    /\ cache = <<Dump(save_arg[1])>>

\* check() is past its _save_result and the file does not hold the dump of the
\* result just computed: the write failed
SaveFailed ==
    /\ ck_kind = "check"
    /\ ck_pc \in {"notify", "returned"}
    /\ cache /= <<Dump(UpdateResult(plan, checks))>>

\* C20: a failed write of the cache does not raise: check() goes on to call
\* every notifier, in order, and returns the result it computed; a read of the
\* cache never raises, and returns None when the file is missing and when its
\* content is corrupt.  (With apt_source_file unset nothing else in check()
\* raises, so there check() never raises at all.)
C20_CacheFailuresAreNotErrors ==
    /\ (ck_kind = "check" /\ apt_source_file = NoneV) => ck_pc /= "raised"
    /\ (ck_kind = "check" /\ ck_pc = "returned") =>
         notified = [i \in 1..Len(notifiers) |-> i]
    /\ load_pc /= "raised"
    /\ save_pc /= "raised"
    /\ (load_pc = "returned" /\ (cache = <<>> \/ cache = <<Truncated>>)) => loaded = <<>>

\* a check() whose write of the cache failed half-way has called both
\* notifiers and returned, and get_status() then found no cached result
C20_Witness ==
    /\ SaveFailed
    /\ ck_pc = "returned"
    /\ cache = <<Truncated>>
    /\ Len(notifiers) = 2
    /\ notified = <<1, 2>>
    /\ load_pc = "returned"
    /\ loaded = <<>>

\* a check() that could not open the cache file has returned, and get_status()
\* then found no file
C20_MissingFile ==
    /\ SaveFailed
    /\ ck_pc = "returned"
    /\ cache = <<>>
    /\ load_pc = "returned"
    /\ loaded = <<>>

----------------------------------------------------------------------------
(***************************************************************************)
(* Claims about the partition and the result of apply().                   *)
(***************************************************************************)

\* the install invocations of a command trace that name the action a
NamedIn(c, a) ==
    SelectSeq(Installs(c), LAMBDA x :
        \E i \in 1..Len(x.args) : x.args[i] = <<a.name, a.new_version>>)

\* C26: apply() partitions its action list: every action, the one whose current
\* version is the empty string included, is in exactly one of the upgrade set and
\* the install set, so every verified action was named in exactly one install
\* invocation.
C26_Partition ==
    \A p \in Procs :
        Verified(p) =>
            \A i \in 1..Len(actions[p]) :
                /\ (ToUpgrade(<<actions[p][i]>>) /= <<>>)
                      /= (ToInstall(<<actions[p][i]>>) /= <<>>)
                /\ Len(NamedIn(cmds[p], actions[p][i])) = 1

\* C26 divergence: an action whose current version is "" was verified, and even
\* passed verification, though no install invocation named it
C26_VerifiedButNeverInstalled ==
    \E p \in Procs :
        /\ Verified(p)
        /\ Len(actions[p]) = 1
        /\ actions[p][1].current_version = ""
        /\ Installs(cmds[p]) = <<>>
        /\ ret[p][1].results[1].name = actions[p][1].name
        /\ ret[p][1].ok

\* C27: in every result of an apply() run that acquired the lock, ok is true
\* exactly when rc is 0; rc is the largest install exit code, raised to 2 when the
\* installs all exited 0 but a verification failed.
C27_OkIffRcZero ==
    \A p \in Procs :
        (pc[p] = "returned" /\ ret[p] /= <<>> /\ ret[p][1] /= Rejected) =>
            ret[p][1].ok <=> ret[p][1].rc = 0

\* C27 divergence: an install invocation exited 100, every verification matched,
\* and apply() returned ok = True with rc = 100
C27_OkWithFailedInstall ==
    \E p \in Procs :
        /\ Verified(p)
        /\ Len(Installs(cmds[p])) = 1
        /\ ret[p][1].results /= <<>>
        /\ \A i \in 1..Len(ret[p][1].results) :
              ret[p][1].results[i].installed = ret[p][1].results[i].expected
        /\ ret[p][1].ok
        /\ ret[p][1].rc = 100

----------------------------------------------------------------------------
(***************************************************************************)
(* The repository index could not be fetched, decompressed or parsed.      *)
(***************************************************************************)

\* fetch_repository_checksums() came back with nothing recorded and the rebuild
\* loop is over
IndexFailed == repo_checksums = <<>> /\ apt_pc \in {"checksums", "returned", "raised"}

\* C24: rebuild detection degrades gracefully: when the repository index yields
\* nothing, the check still completes and returns exactly the version-upgrade
\* actions, with no rebuild action.
C24_DegradesGracefully ==
    IndexFailed =>
        /\ apt_packages = apt_upgrades
        /\ apt_pc /= "raised"

\* C24 divergence: the index yielded nothing, no rebuild action was added, and the
\* call raised instead of returning its version upgrade
C24_UpgradesLostOnIndexFailure ==
    /\ IndexFailed
    /\ apt_pc = "raised"
    /\ apt_upgrades /= <<>>
    /\ apt_packages = apt_upgrades
    /\ all_installed /= <<>>

----------------------------------------------------------------------------
(***************************************************************************)
(* Claims about the daemon loop after a failed check and after its own     *)
(* checks.                                                                 *)
(***************************************************************************)

\* the loop hands a change-triggered check to a thread in this step
ChangeCheckStarts ==
    /\ loop_pc' = "chg_check" /\ awaited' = "check"
    /\ ~(loop_pc = "chg_check" /\ awaited = "check")

\* the loop's `except Exception` handles a check that raised in this step
CheckFailureHandled ==
    /\ loop_pc \in {"chg_check", "per_check"}
    /\ awaited = "raised"
    /\ loop_pc' /= loop_pc \/ awaited' /= awaited

\* C28: after a check raises inside the daemon loop, change-triggered or periodic,
\* the loop runs no further check until it has slept one full interval.
C28_SleepAfterFailedCheck == [][CheckFailureHandled => ~ChangeCheckStarts]_vars

\* C28 divergence: the change-triggered check raised, the stored mtime was not
\* updated, and the directory is still newer than it: the loop top checks again
\* at once
C28_FailedCheckBeforeRecheck ==
    /\ running
    /\ loop_pc = "chg_check"
    /\ awaited = "raised"
    /\ dir_mtime > last_apt_cache_mtime

\* C29: a check run by the daemon itself never triggers an out-of-band re-check:
\* the loop starts a change-triggered check only if the directory was modified
\* after the daemon's last own check finished.
C29_OwnCheckNeverRetriggers == [][ChangeCheckStarts => dir_mtime > left_mtime]_vars

\* C29 divergence: a change-triggered check is running though the directory is as
\* the daemon's last own check left it; the stored mtime is older
C29_RecheckAfterOwnCheck ==
    /\ running
    /\ loop_pc = "chg_check"
    /\ awaited = "check"
    /\ dir_mtime = left_mtime
    /\ last_apt_cache_mtime < left_mtime

----------------------------------------------------------------------------
(***************************************************************************)
(* Claims about the batched size query of check_updates().                 *)
(***************************************************************************)

\* the `apt-cache show` invocations of a command trace
Shows(c) == SelectSeq(c, LAMBDA x : x.kind = "show")

\* what an `apt-cache show` outcome reports as the size of name: the value of the
\* last Size line that follows a Package line naming it, 0 when the command
\* failed, when there is no such line or when its value is no number
ReportedSize(out, name) ==
    LET lines == out[1]
        Last(S) == CHOOSE k \in S : \A m \in S : m <= k
        Owner(j) == LET ps == {k \in 1..(j - 1) : lines[k][1] = "Package"}
                    IN  IF ps = {} THEN NoneV ELSE lines[Last(ps)][2]
        hits == {j \in 1..Len(lines) : lines[j][1] = "Size" /\ Owner(j) = name}
    IN  IF out[2] /= 0 \/ hits = {} THEN 0
        ELSE LET n == ParseInt[lines[Last(hits)][2]] IN IF n = <<>> THEN 0 ELSE n[1]

\* C23: each check_updates() issues at most one size query: exactly one, naming
\* every action of the plan, when the plan is non-empty, and none when it is
\* empty; each action's size is the size reported for its name, or 0 when the
\* query fails or does not report that name; a failed size query never removes an
\* action from the plan.
C23_OneSizeQuery ==
    /\ Len(Shows(ck_cmds)) <= 1
    /\ ck_pc \in {"built", "returned"} /\ ck_kind \in {"check", "check_updates"} =>
          /\ NamesOf(plan) = NamesOf(SortedPackages(packages_dict))
          /\ IF plan = <<>>
             THEN Shows(ck_cmds) = <<>>
             ELSE /\ Len(Shows(ck_cmds)) = 1
                  /\ Shows(ck_cmds)[1].args = NamesOf(plan)
                  /\ \A i \in 1..Len(plan) :
                        plan[i].size = ReportedSize(Shows(ck_cmds)[1].out, plan[i].name)

\* C23 witness: a plan of two actions was returned after one size query that
\* reported 1024 for the first and nothing usable for the second
C23_Witness ==
    /\ ck_pc = "returned"
    /\ Len(plan) = 2
    /\ Len(Shows(ck_cmds)) = 1
    /\ Shows(ck_cmds)[1].out[2] = 0
    /\ plan[1].size = 1024
    /\ plan[2].size = 0

\* a plan was returned whole after the size query failed
C23_FailedQueryKeepsPlan ==
    /\ ck_pc = "returned"
    /\ Len(plan) = 2
    /\ Len(Shows(ck_cmds)) = 1
    /\ Shows(ck_cmds)[1].out[2] /= 0
    /\ plan[1].size = 0 /\ plan[2].size = 0

----------------------------------------------------------------------------
(***************************************************************************)
(* Claim about the names that reach a plan.                                *)
(***************************************************************************)

\* C25: every package name in every plan returned by check_updates() satisfies
\* the strict name grammar, whichever source it came from (a parsed listing line
\* or a curated bundle entry), so every name=version argument apply() builds from
\* a plan has a validated name.
C25_PlanNamesValid ==
    ck_pc \in {"built", "returned"} =>
        \A i \in 1..Len(plan) :
            /\ MatchesPattern(Spell[plan[i].name])
            /\ Len(Spell[plan[i].name]) <= MaxPackageNameLen

\* C25 divergence: a plan was returned with a first-time install of the curated
\* entry "Pkg_", which the validator rejects
C25_UnvalidatedBundleName ==
    /\ ck_pc = "returned"
    /\ bundle_default = <<"Pkg_">>
    /\ ValidatePackageName("Pkg_") = <<>>
    /\ \E i \in 1..Len(plan) :
          plan[i].name = "Pkg_" /\ plan[i].current_version = NoneV

----------------------------------------------------------------------------
(***************************************************************************)
(* Claim about a load that runs while a save is under way.                 *)
(***************************************************************************)

\* _load_cached_result() runs in this step while a _save_result() that found a
\* loadable result on disk is between its open() and the end of its write
LoadDuringSave ==
    /\ save_pc = "opened"
    /\ LoadCachedResult(cacheBefore) /= <<>>
    /\ load_pc = "idle" /\ load_pc' /= "idle"

\* C30: once some UpdateResult has been persisted, a get_status() / load that runs
\* concurrently with a check's save returns either the previous result or the new
\* one in full, never "no cached result" and never a mixture.
C30_LoadSeesOldOrNew ==
    [][LoadDuringSave =>
          /\ load_pc' = "returned"
          /\ loaded' \in {LoadCachedResult(cacheBefore), save_arg}]_vars

\* C30 divergence: the file held the earlier result, the save has opened it for
\* writing, and a load made meanwhile returned None
C30_LoadSeesNothing ==
    /\ save_pc = "opened"
    /\ cacheBefore = <<Dump(PriorResult)>>
    /\ LoadCachedResult(cacheBefore) = <<PriorResult>>
    /\ cache = <<Truncated>>
    /\ load_pc = "returned"
    /\ loaded = <<>>

----------------------------------------------------------------------------
(***************************************************************************)
(* SpecNotify: _notify_all(result) called on a checker with any list of    *)
(* notifiers, any of which raise.                                          *)
(***************************************************************************)

\* the longest notifier list
MaxNotifiers == 4

InitNotify ==
    /\ ApplyIdle
    /\ apt_source_file = NoneV
    /\ policy_allow_new_packages = TRUE
    /\ bundle_default = <<>>
    /\ notifiers \in SeqsUpTo({"ok", "raises"}, MaxNotifiers)
    /\ cache = <<>>
    /\ CheckIdle
    /\ DaemonIdle
    /\ AptIdle
    /\ CallIdle

\* checker.py:493-498  _notify_all(result) is called; with no notifier it
\* returns at once (the loop has nothing to do)
CkCallNotifyAll ==
    /\ ck_pc = "idle"
    /\ checks = 0
    /\ ck_kind' = "_notify_all"
    /\ ck_pc' = "notify"
    /\ checks' = checks + 1
    /\ UNCHANGED <<notifiers, packages_dict, bundle_idx, ck_cmds, plan, cache, cacheBefore,
                   notified>>
    /\ UNCHANGED notCheck

NextNotify ==
    \/ CkCallNotifyAll
    \/ CkNotify
    \/ CkReturn
    \/ CkDone

SpecNotify == InitNotify /\ [][NextNotify]_vars

\* C22: notification fan-out isolates failures: for any list of notifiers and any
\* subset of them raising, every notifier is called exactly once, in registration
\* order, and the dispatch never raises.
C22_FanOutIsolatesFailures ==
    ck_kind = "_notify_all" =>
        /\ ck_pc /= "raised"
        /\ Len(notified) <= Len(notifiers)
        /\ \A i \in 1..Len(notified) : notified[i] = i
        /\ ck_pc = "returned" => Len(notified) = Len(notifiers)

\* C22 witness: the dispatch returned after calling four notifiers in order, the
\* first and the third of which raised
C22_Witness ==
    /\ ck_kind = "_notify_all"
    /\ ck_pc = "returned"
    /\ notifiers = <<"raises", "ok", "raises", "ok">>
    /\ notified = <<1, 2, 3, 4>>

----------------------------------------------------------------------------
(***************************************************************************)
(* SpecRun: _run_command(cmd, timeout, capture_output) called on its own,  *)
(* for everything subprocess.run can do with the command.                  *)
(***************************************************************************)

\* what subprocess.run does: it returns a CompletedProcess (raises = None) whose
\* stdout and stderr are None when the output is not captured, or it raises
\* TimeoutExpired, or another exception whose str() is message
Ran(raises, message, stdout, stderr, returncode, capture_output) ==
    [raises |-> raises, message |-> message, stdout |-> stdout, stderr |-> stderr,
     returncode |-> returncode, capture_output |-> capture_output]

\* exit statuses of a child: success, failures, apt's 100, killed by signal 9
ReturnCodes == {0, 1, 2, 100, -9}

RunInputs ==
    {Ran(NoneV, NoneV, out, err, code, TRUE) :
        out \in {"", "2.0", "Listing..."}, err \in {"", "W: warning", "E: error"},
        code \in ReturnCodes}
    \cup {Ran(NoneV, NoneV, NoneV, NoneV, code, FALSE) : code \in ReturnCodes}
    \cup {Ran("TimeoutExpired", NoneV, NoneV, NoneV, 0, cap) : cap \in BOOLEAN}
    \cup {Ran("Exception", msg, NoneV, NoneV, 0, cap) :
            msg \in {"", "[Errno 2] No such file or directory", "[Errno 13] Permission denied"},
            cap \in BOOLEAN}

\* a runner that lets the exception of a command that cannot be started through
RunCommandReraises(r) ==
    CASE r.raises = "TimeoutExpired" -> <<<<"", "Command timed out", 1>>>>
      [] r.raises = "Exception" -> <<>>
      [] OTHER -> << <<IF r.capture_output THEN r.stdout ELSE "",
                       IF r.capture_output THEN r.stderr ELSE "",
                       r.returncode>> >>

\* checker.py:341-360  _run_command: <<(stdout, stderr, code)>>, or <<>> when an
\* exception leaves it
RunCommand(r) ==
    CASE r.raises = "TimeoutExpired" -> <<<<"", "Command timed out", 1>>>>
      [] r.raises = "Exception" -> <<<<"", r.message, 1>>>>
      [] OTHER -> << <<IF r.capture_output THEN r.stdout ELSE "",
                       IF r.capture_output THEN r.stderr ELSE "",
                       r.returncode>> >>

InitRun ==
    /\ ApplyIdle
    /\ apt_source_file = NoneV
    /\ policy_allow_new_packages = TRUE
    /\ bundle_default = <<>>
    /\ notifiers = <<>>
    /\ cache = <<>>
    /\ CheckIdle
    /\ DaemonIdle
    /\ AptIdle
    /\ val_pc = "idle"
    /\ val_in = <<>>
    /\ val_out = <<>>
    /\ load_pc = "idle"
    /\ loaded = <<>>
    /\ save_pc = "idle"
    /\ save_arg = <<>>
    /\ run_pc = "idle"
    /\ run_in \in {<<r>> : r \in RunInputs}
    /\ run_out = <<>>
    /\ first_cmds = <<>>
    /\ first_plan = <<>>

\* checker.py:331-360  _run_command(cmd) returns or raises
RunCmd ==
    /\ run_pc = "idle"
    /\ run_in /= <<>>
    /\ run_out' = RunCommand(run_in[1])
    /\ run_pc' = IF run_out' = <<>> THEN "raised" ELSE "returned"
    /\ UNCHANGED <<val_pc, val_in, val_out, load_pc, loaded, save_pc, save_arg, run_in,
                   first_cmds, first_plan>>
    /\ UNCHANGED notCall

NextRun == RunCmd

SpecRun == InitRun /\ [][NextRun]_vars

\* C21: the command runner never raises for an ordinary failure: a timeout gives
\* ("", "Command timed out", 1); a command that cannot be started, or any other
\* failure of the run, gives ("", the error's message, 1); otherwise the result is
\* the child's captured output and its real exit code.
C21_RunnerNeverRaises ==
    run_pc /= "idle" =>
        /\ run_pc = "returned"
        /\ Len(run_out) = 1
        /\ LET r == run_in[1]
               stdout == run_out[1][1]
               stderr == run_out[1][2]
               code == run_out[1][3]
           IN  /\ r.raises = "TimeoutExpired" =>
                     stdout = "" /\ stderr = "Command timed out" /\ code = 1
               /\ r.raises = "Exception" =>
                     stdout = "" /\ stderr = r.message /\ code = 1
               /\ r.raises = NoneV =>
                     /\ code = r.returncode
                     /\ r.capture_output => stdout = r.stdout /\ stderr = r.stderr
                     /\ ~r.capture_output => stdout = "" /\ stderr = ""

\* C21 witness: a command that could not be started came back as exit code 1 with
\* the error's message
C21_Witness ==
    /\ run_pc = "returned"
    /\ run_in[1].raises = "Exception"
    /\ run_out = << <<"", "[Errno 2] No such file or directory", 1>> >>

\* a child killed by a signal came back with its captured output and its status
C21_ChildStatusKept ==
    /\ run_pc = "returned"
    /\ run_in[1].raises = NoneV
    /\ run_in[1].capture_output
    /\ run_out = << <<"Listing...", "E: error", -9>> >>

=============================================================================
